---- MODULE Spec2Model ----
(***************************************************************************)
(* Track admissibility and ranking engine of binari-ammissibili            *)
(* (app/services/track_selector.py, app/config_service.py).                *)
(*                                                                         *)
(* Encoding of Python values:                                              *)
(*  - a string that names a track is a record [toks, canon]: toks is the   *)
(*    sequence of upper-cased whitespace-separated tokens, canon says      *)
(*    whether the raw string is byte-equal to its normalised form          *)
(*    " ".join(name.strip().upper().split()); the normalised name itself   *)
(*    is the token sequence;                                               *)
(*  - Optional[int] uses the sentinel None; a value that int() rejects     *)
(*    with ValueError (a non-numeric string) is the sentinel NonNumeric;   *)
(*  - math.inf is the sentinel Inf, larger than every finite value of the  *)
(*    model;                                                               *)
(*  - the float nan is the sentinel NaN, compared through float_eq and    *)
(*    float_lt;                                                            *)
(*  - a dict with insertion order is a sequence of entries with distinct   *)
(*    keys; a database table is a function from primary key to row.        *)
(***************************************************************************)
EXTENDS Integers, Sequences, FiniteSets, TLC

VARIABLES
    tracks,          \* TrackDataset handed to select_tracks (ordered dict)
    train_length_m,  \* requested train length
    planned_track,   \* Optional[str] planned-track reference
    category_rule,   \* Optional[CategoryRuleConfig]
    priority_config, \* Optional[PriorityConfig]
    pc,              \* "idle" before the call, "done" after it
    candidates,      \* the sorted candidate list of the call (line 461)
    log,             \* warnings emitted through logger.warning
    result,          \* outcome of the call: a raised exception or the list
    rule_rows,       \* table category_rules: primary key -> row
    priority_rows,   \* table category_priority_configs: primary key -> row
    call,            \* last call of the configuration service and its value
    trains,          \* payload.trains of POST /tracks/suggestions
    response,        \* what get_suggestions answered
    last_upsert,     \* history: key -> payload of its last upsert_category_rule
                     \* not followed by a delete_category_rule
    auth             \* admin sessions: environment, clock, issued tokens and
                     \* the outcome of the last token check

vars == <<tracks, train_length_m, planned_track, category_rule,
          priority_config, pc, candidates, log, result, rule_rows,
          priority_rows, call, trains, response, last_upsert,
          auth>>

\* Python None for Optional[int] fields and missing dict keys.
None == -1
\* A value on which int() raises ValueError (e.g. the string "abc").
NonNumeric == -2
\* math.inf
Inf == 1000000

Abs(x) == IF x < 0 THEN -x ELSE x

\* Python `value or 0` on an int / None / non-numeric string.
OrZero(v) == IF v = None THEN 0 ELSE v

-----------------------------------------------------------------------------
(* Track name normaliser *)

ROMAN ==
    [t \in {"I", "II", "III", "IV", "V", "VI", "VII", "VIII", "IX", "X",
            "XI", "XII", "XIII", "XIV", "XV", "XVI", "XVII", "XVIII", "XIX",
            "XX", "XXI", "XXII", "XXIII", "XXIV", "XXV"} |->
        CASE t = "I" -> 1 [] t = "II" -> 2 [] t = "III" -> 3 [] t = "IV" -> 4
          [] t = "V" -> 5 [] t = "VI" -> 6 [] t = "VII" -> 7
          [] t = "VIII" -> 8 [] t = "IX" -> 9 [] t = "X" -> 10
          [] t = "XI" -> 11 [] t = "XII" -> 12 [] t = "XIII" -> 13
          [] t = "XIV" -> 14 [] t = "XV" -> 15 [] t = "XVI" -> 16
          [] t = "XVII" -> 17 [] t = "XVIII" -> 18 [] t = "XIX" -> 19
          [] t = "XX" -> 20 [] t = "XXI" -> 21 [] t = "XXII" -> 22
          [] t = "XXIII" -> 23 [] t = "XXIV" -> 24 [] t = "XXV" -> 25]

\* int(first) for the all-digit tokens of the model's alphabet.
DigitTokens == [t \in {"1", "5", "15"} |->
                   CASE t = "1" -> 1 [] t = "5" -> 5 [] t = "15" -> 15]

\* number = int(first) if first.isdigit() else ROMAN.get(first)
token_number(first) ==
    IF first \in DOMAIN DigitTokens THEN DigitTokens[first]
    ELSE IF first \in DOMAIN ROMAN THEN ROMAN[first]
    ELSE None

\* _parse_track_name: (number, suffix, normalised)
parse_track_name(name) ==
    IF name.toks = <<>>
    THEN [num |-> None, suffix |-> "", norm |-> <<>>]
    ELSE [num    |-> token_number(name.toks[1]),
          suffix |-> IF Len(name.toks) > 1 THEN name.toks[2] ELSE "",
          norm   |-> name.toks]

\* Python truthiness of a name string: only None and "" are falsy.
IsEmptyName(name) == name.toks = <<>> /\ name.canon

-----------------------------------------------------------------------------
(* Inventory records *)

\* dict.get on a record that lacks every key ({}): every field reads None.
EmptyInfo ==
    [marciapiede_complessivo_m |-> None, marciapiede_alto_m |-> None,
     marciapiede_basso_m |-> None, capacita_funzionale_m |-> None,
     capacita_funzionle_m |-> None]

\* tracks.get(norm_name): the entry whose raw key equals the normalised string
HasKey(trk, norm) ==
    \E i \in 1..Len(trk) : trk[i].name.toks = norm /\ trk[i].name.canon

tracks_get(trk, norm) ==
    IF HasKey(trk, norm)
    THEN (CHOOSE e \in {trk[i] : i \in 1..Len(trk)} :
              e.name.toks = norm /\ e.name.canon).info
    ELSE EmptyInfo

\* _profile_tuple
profile_tuple(info) ==
    <<IF OrZero(info.marciapiede_alto_m) > 0 THEN 1 ELSE 0,
      IF OrZero(info.marciapiede_basso_m) > 0 THEN 1 ELSE 0>>

\* _normalise_capacity: canonical key, then the misspelled key, then 0
normalise_capacity(info) ==
    LET a == info.capacita_funzionale_m
        b == info.capacita_funzionle_m
        value == IF a # None /\ a # 0 THEN a
                 ELSE IF b # None /\ b # 0 THEN b ELSE 0
    IN IF value = NonNumeric THEN 0 ELSE value

\* _validate_track_data
validate_track_data(info) ==
    /\ info.marciapiede_complessivo_m # None
    /\ info.marciapiede_complessivo_m # NonNumeric

\* track_meta[normalised] = ...: overwrite in place or append (dict order)
meta_put(meta, entry) ==
    IF \E i \in 1..Len(meta) : meta[i].name = entry.name
    THEN [i \in 1..Len(meta) |->
              IF meta[i].name = entry.name THEN entry ELSE meta[i]]
    ELSE Append(meta, entry)

RECURSIVE build_track_metadata_from(_, _, _)
build_track_metadata_from(trk, i, meta) ==
    IF i > Len(trk) THEN meta
    ELSE IF ~validate_track_data(trk[i].info)
         THEN build_track_metadata_from(trk, i + 1, meta)
         ELSE LET p == parse_track_name(trk[i].name)
              IN build_track_metadata_from(trk, i + 1,
                     meta_put(meta,
                         [name      |-> p.norm,
                          num       |-> p.num,
                          suffix    |-> p.suffix,
                          len_compl |-> OrZero(trk[i].info.marciapiede_complessivo_m),
                          cap_fun   |-> normalise_capacity(trk[i].info)]))

\* _build_track_metadata
build_track_metadata(trk) == build_track_metadata_from(trk, 1, <<>>)

\* warnings of _validate_track_data over the whole inventory
validation_warnings(trk) ==
    {[kind |-> IF trk[i].info.marciapiede_complessivo_m = None
               THEN "missing" ELSE "non_numeric",
      name |-> trk[i].name] :
        i \in {j \in 1..Len(trk) : ~validate_track_data(trk[j].info)}}

-----------------------------------------------------------------------------
(* Planned-track resolver *)

\* lookup = {(meta.num, meta.suffix): norm_name ...}: the last entry wins
lookup_hits(meta, num, suffix) ==
    {i \in 1..Len(meta) : meta[i].num = num /\ meta[i].suffix = suffix}

Max(S) == CHOOSE x \in S : \A y \in S : y <= x

\* resolved_norm = lookup.get((planned_num, planned_suffix), planned_norm)
resolved_norm(planned, meta) ==
    LET p == parse_track_name(planned)
        hits == lookup_hits(meta, p.num, p.suffix)
    IN IF hits # {} THEN meta[Max(hits)].name ELSE p.norm

\* _resolve_planned_track: (planned_num, planned_suffix, planned_info);
\* found = FALSE stands for planned_info = None
resolve_planned_track(planned, meta, trk) ==
    IF IsEmptyName(planned)
    THEN [num |-> None, suffix |-> "", found |-> FALSE, info |-> EmptyInfo]
    ELSE LET p == parse_track_name(planned)
             norm == resolved_norm(planned, meta)
         IN [num    |-> p.num,
             suffix |-> p.suffix,
             found  |-> HasKey(trk, norm),
             info   |-> tracks_get(trk, norm)]

\* the warning of lines 174-178
planned_warnings(planned, meta, trk) ==
    IF ~IsEmptyName(planned) /\ ~resolve_planned_track(planned, meta, trk).found
    THEN {[kind |-> "planned_not_found", name |-> planned]}
    ELSE {}

-----------------------------------------------------------------------------
(* Feasibility filter *)

\* tier that looks at the hard band only
priority_class_hard_only(num, rule) ==
    IF num = None THEN 0
    ELSE IF rule.min_track_number # None /\ num < rule.min_track_number THEN 1
    ELSE IF rule.max_track_number # None /\ num > rule.max_track_number THEN 1
    ELSE 0

\* tier that treats a single preferred bound as a band
priority_class_one_sided(num, rule) ==
    IF num = None THEN 0
    ELSE IF rule.min_track_number # None /\ num < rule.min_track_number THEN 1
    ELSE IF rule.max_track_number # None /\ num > rule.max_track_number THEN 1
    ELSE IF rule.preferred_min_track_number # None
            /\ num < rule.preferred_min_track_number THEN 1
    ELSE IF rule.preferred_max_track_number # None
            /\ num > rule.preferred_max_track_number THEN 1
    ELSE 0

\* _priority_class
priority_class(num, rule) ==
    IF num = None THEN 0
    ELSE IF rule.min_track_number # None /\ num < rule.min_track_number THEN 1
    ELSE IF rule.max_track_number # None /\ num > rule.max_track_number THEN 1
    ELSE IF rule.preferred_min_track_number # None
            /\ rule.preferred_max_track_number # None
         THEN IF rule.preferred_min_track_number <= num
                 /\ num <= rule.preferred_max_track_number
              THEN 0 ELSE 1
    ELSE 0

\* `pattern and pattern in norm_name` for patterns made of one token with an
\* optional leading blank (" NORD"): the token occurs in the name, after
\* another token when the pattern starts with a blank
pattern_in_name(pattern, norm) ==
    \E i \in 1..Len(norm) :
        norm[i] = pattern.tok /\ (pattern.lead_space => i > 1)

SSE_AMB == <<"SSE", "AMB.">>

\* exclusion without the BIS test
is_track_excluded_bis_kept(norm_name, num, suffix, rule, planned_num, planned_suffix) ==
    \/ norm_name = SSE_AMB
    \/ planned_num # None /\ num = planned_num /\ suffix = planned_suffix
    \/ /\ num # None
       /\ \/ rule.min_track_number # None /\ num < rule.min_track_number
          \/ rule.max_track_number # None /\ num > rule.max_track_number
          \/ num \in rule.deny_track_numbers
    \/ norm_name \in rule.deny_track_names
    \/ \E k \in 1..Len(rule.deny_track_patterns) :
           pattern_in_name(rule.deny_track_patterns[k], norm_name)

\* exclusion that lets the planned track through
is_track_excluded_planned_kept(norm_name, num, suffix, rule, planned_num, planned_suffix) ==
    \/ norm_name = SSE_AMB
    \/ suffix = "BIS" /\ ~rule.allow_bis
    \/ /\ num # None
       /\ \/ rule.min_track_number # None /\ num < rule.min_track_number
          \/ rule.max_track_number # None /\ num > rule.max_track_number
          \/ num \in rule.deny_track_numbers
    \/ norm_name \in rule.deny_track_names
    \/ \E k \in 1..Len(rule.deny_track_patterns) :
           pattern_in_name(rule.deny_track_patterns[k], norm_name)

\* _is_track_excluded
is_track_excluded(norm_name, num, suffix, rule, planned_num, planned_suffix) ==
    \/ norm_name = SSE_AMB
    \/ planned_num # None /\ num = planned_num /\ suffix = planned_suffix
    \/ suffix = "BIS" /\ ~rule.allow_bis
    \/ /\ num # None
       /\ \/ rule.min_track_number # None /\ num < rule.min_track_number
          \/ rule.max_track_number # None /\ num > rule.max_track_number
          \/ num \in rule.deny_track_numbers
    \/ norm_name \in rule.deny_track_names
    \/ \E k \in 1..Len(rule.deny_track_patterns) :
           pattern_in_name(rule.deny_track_patterns[k], norm_name)

\* length check with the comparison of the platform-required branch reversed
meets_length_requirements_reversed(len_compl, cap_fun, train_length, rule) ==
    IF ~rule.allow_no_platform /\ len_compl <= 0 THEN FALSE
    ELSE IF rule.allow_no_platform
         THEN IF cap_fun > 0 THEN cap_fun >= train_length
              ELSE IF len_compl > 0 THEN len_compl >= train_length
              ELSE TRUE
    ELSE len_compl <= train_length

\* length check that sends a platform-less track to the length comparison
meets_length_requirements_strict(len_compl, cap_fun, train_length, rule) ==
    IF ~rule.allow_no_platform /\ len_compl <= 0 THEN FALSE
    ELSE IF rule.allow_no_platform
         THEN IF cap_fun > 0 THEN cap_fun >= train_length
              ELSE len_compl >= train_length
    ELSE len_compl >= train_length

\* length check that lets a positive capacity decide in every category
meets_length_requirements_capacity_first(len_compl, cap_fun, train_length, rule) ==
    IF ~rule.allow_no_platform /\ len_compl <= 0 THEN FALSE
    ELSE IF cap_fun > 0 THEN cap_fun >= train_length
    ELSE IF rule.allow_no_platform /\ len_compl <= 0 THEN TRUE
    ELSE len_compl >= train_length

\* _meets_length_requirements
meets_length_requirements(len_compl, cap_fun, train_length, rule) ==
    IF ~rule.allow_no_platform /\ len_compl <= 0 THEN FALSE
    ELSE IF rule.allow_no_platform
         THEN IF cap_fun > 0 THEN cap_fun >= train_length
              ELSE IF len_compl > 0 THEN len_compl >= train_length
              ELSE TRUE
    ELSE len_compl >= train_length

-----------------------------------------------------------------------------
(* Candidate scorer *)

\* _track_similarity_score (its TypeError is in build_outcome)
track_similarity_score(candidate_info, planned) ==
    IF ~planned.found THEN 0
    ELSE LET candidate_len == OrZero(candidate_info.marciapiede_complessivo_m)
             planned_len == OrZero(planned.info.marciapiede_complessivo_m)
         IN (IF candidate_len > 0 /\ candidate_len = planned_len THEN 2 ELSE 0)
            + (IF profile_tuple(candidate_info) = profile_tuple(planned.info)
               THEN 1 ELSE 0)

\* proximity without the twin case: plain ordinal distance
proximity_rank_plain(candidate_num, candidate_suffix, planned_num, planned_suffix) ==
    IF candidate_num = None \/ planned_num = None THEN Inf
    ELSE Abs(candidate_num - planned_num)

\* _proximity_rank
proximity_rank(candidate_num, candidate_suffix, planned_num, planned_suffix) ==
    IF candidate_num = None \/ planned_num = None THEN Inf
    ELSE IF candidate_num = planned_num /\ candidate_suffix # planned_suffix
         THEN 1
    ELSE Abs(candidate_num - planned_num)

\* What building the record of one candidate does: "ok", or the exception
\* that escapes.  `candidate_len > 0` on a non-numeric string raises
\* TypeError (line 96); int() of a non-numeric planned length raises
\* ValueError (line 266).
build_outcome(norm_name, planned, trk) ==
    IF ~planned.found THEN "ok"
    ELSE IF tracks_get(trk, norm_name).marciapiede_complessivo_m = NonNumeric
         THEN "TypeError"
    ELSE IF planned.info.marciapiede_complessivo_m = NonNumeric
         THEN "ValueError"
    ELSE "ok"

\* _build_candidate_record
build_candidate_record(norm_name, meta, planned, trk, rule, priority) ==
    LET planned_len == IF planned.found
                       THEN OrZero(planned.info.marciapiede_complessivo_m)
                       ELSE 0
        twin == planned.num # None /\ meta.num = planned.num
                /\ meta.suffix # planned.suffix
    IN [name              |-> norm_name,
        priority_class    |-> priority_class(meta.num, rule),
        proximity         |-> proximity_rank(meta.num, meta.suffix,
                                             planned.num, planned.suffix),
        similarity_score  |-> track_similarity_score(
                                  tracks_get(trk, norm_name), planned),
        same_number_bonus |-> IF twin THEN priority.same_number_bonus ELSE 0,
        len_delta         |-> Abs((IF planned_len # 0 THEN planned_len
                                   ELSE meta.len_compl) - meta.len_compl),
        sort_num          |-> IF meta.num # None THEN meta.num ELSE Inf,
        suffix_flag       |-> IF meta.suffix # "" THEN 1 ELSE 0,
        len_compl         |-> meta.len_compl,
        cap_fun           |-> meta.cap_fun,
        num               |-> meta.num,
        suffix            |-> meta.suffix]

\* _criterion_value
criterion_value(key, record) ==
    CASE key = "priority_class"    -> record.priority_class
      [] key = "proximity"         -> record.proximity
      [] key = "similarity"        -> -record.similarity_score
      [] key = "same_number"       -> record.same_number_bonus
      [] key = "length_delta"      -> record.len_delta
      [] key = "track_number"      -> record.sort_num
      [] key = "suffix_flag"       -> record.suffix_flag
      [] key = "no_platform_first" -> IF record.len_compl = 0 THEN 0 ELSE 1
      [] key = "bis_preference"    -> IF record.suffix = "BIS" THEN 0 ELSE 1
      [] OTHER                     -> 0

-----------------------------------------------------------------------------
(* Ranker *)

\* the float nan: the product of math.inf and a zero weight
NaN == 2000000

\* value * weight * direction: math.inf keeps its magnitude and takes the
\* sign of a non-zero factor, and gives nan with a zero factor
weighted(value, factor) ==
    IF value = Inf
    THEN (IF factor > 0 THEN Inf ELSE IF factor < 0 THEN -Inf ELSE NaN)
    ELSE value * factor

\* criteria without the default for an empty list
effective_criteria_as_given(priority) == priority.criteria

\* criteria = priority_config.criteria or [{"key": "track_number"}]
effective_criteria(priority) ==
    IF priority.criteria = <<>>
    THEN <<[key |-> "track_number", weight |-> 1, direction |-> 1]>>
    ELSE priority.criteria

\* the criteria that contribute a tuple position (`if not key: continue`)
keyed_criteria(priority) ==
    SelectSeq(effective_criteria(priority), LAMBDA c : c.key # "")

\* select_tracks.sort_key
sort_key(record, priority) ==
    LET crit == keyed_criteria(priority)
    IN [k \in 1..Len(crit) |->
           weighted(criterion_value(crit[k].key, record),
                    crit[k].weight * crit[k].direction)]

\* float comparisons: every comparison with nan is false
float_eq(x, y) == x # NaN /\ y # NaN /\ x = y
float_lt(x, y) == x # NaN /\ y # NaN /\ x < y

\* Python tuple comparison a < b for tuples of equal length: the first
\* position where the elements are not equal decides
tuple_less(a, b) ==
    \E i \in 1..Len(a) :
        /\ ~float_eq(a[i], b[i])
        /\ float_lt(a[i], b[i])
        /\ \A j \in 1..(i - 1) : float_eq(a[j], b[j])

key_less(x, y, priority) ==
    tuple_less(sort_key(x, priority), sort_key(y, priority))

\* list.sort on fewer than 64 elements: count_run finds the leading run,
\* strictly descending (then reversed) or non-descending
run_descending(records, priority) ==
    Len(records) >= 2 /\ key_less(records[2], records[1], priority)

count_run(records, priority) ==
    IF Len(records) < 2 THEN Len(records)
    ELSE LET desc == run_descending(records, priority)
             continues(i) ==
                 key_less(records[i], records[i - 1], priority) <=> desc
         IN CHOOSE n \in 2..Len(records) :
                /\ \A i \in 3..n : continues(i)
                /\ n < Len(records) => ~continues(n + 1)

Reverse(seq) == [i \in 1..Len(seq) |-> seq[Len(seq) + 1 - i]]

RECURSIVE bisect(_, _, _, _, _)
\* binary search of binarysort: the slot of pivot x in sorted[l..r-1]
bisect(sorted, x, priority, l, r) ==
    IF l >= r THEN l
    ELSE LET p == l + ((r - l) \div 2)
         IN IF key_less(x, sorted[p], priority)
            THEN bisect(sorted, x, priority, l, p)
            ELSE bisect(sorted, x, priority, p + 1, r)

\* x is inserted before the elements whose key is not smaller than its own
insert_unstable(sorted, x, priority) ==
    LET p == Cardinality({i \in 1..Len(sorted) :
                             key_less(sorted[i], x, priority)})
    IN SubSeq(sorted, 1, p) \o <<x>> \o SubSeq(sorted, p + 1, Len(sorted))

\* x is inserted at the slot found by the binary search
insert_stable(sorted, x, priority) ==
    LET l == bisect(sorted, x, priority, 1, Len(sorted) + 1)
    IN SubSeq(sorted, 1, l - 1) \o <<x>> \o SubSeq(sorted, l, Len(sorted))

RECURSIVE binarysort(_, _, _)
binarysort(sorted, rest, priority) ==
    IF rest = <<>> THEN sorted
    ELSE binarysort(insert_stable(sorted, rest[1], priority), Tail(rest),
                    priority)

\* candidates.sort(key=sort_key): a stable sort
sort_candidates(records, priority) ==
    LET n == count_run(records, priority)
        run == SubSeq(records, 1, n)
    IN binarysort(IF run_descending(records, priority) THEN Reverse(run)
                  ELSE run,
                  SubSeq(records, n + 1, Len(records)), priority)

-----------------------------------------------------------------------------
(* Justification generator: a reason is the sequence of its clauses, each   *)
(* the format string of the source with its numeric arguments               *)

Clause(text, a, b) == [text |-> text, a |-> a, b |-> b]

NoPlatformClause ==
    Clause("Nessun marciapiede disponibile: consentito per questa categoria.", 0, 0)
PlatformClause(len, train) ==
    Clause("Marciapiede da {a} m >= lunghezza treno {b} m.", len, train)
CapacityClause(cap, train) ==
    Clause("Capacita funzionale {a} m sufficiente per il treno da {b} m.", cap, train)
BisClause ==
    Clause("Binario BIS ammesso dalle regole della categoria.", 0, 0)
PreferredClause(lo, hi) ==
    Clause("Binario nella fascia prioritaria ({a}-{b}).", lo, hi)
SupportClause(lo, hi) ==
    Clause("Binario di supporto rispetto alla fascia preferita ({a}-{b}).", lo, hi)
VariantClause ==
    Clause("Variante dello stesso numero del binario previsto.", 0, 0)
SameNumberClause ==
    Clause("Stesso numero del binario previsto.", 0, 0)
AdjacentClause ==
    Clause("Adiacente al binario previsto.", 0, 0)
DistanceClause(d) ==
    Clause("Distanza di {a} numeri dal binario previsto.", d, 0)
IncomparableClause ==
    Clause("Numero non confrontabile con il binario previsto.", 0, 0)
IdenticalPlatformClause ==
    Clause("Marciapiede identico al previsto.", 0, 0)
CoherentProfileClause ==
    Clause("Profilo marciapiede coerente con il previsto.", 0, 0)
HighClause == Clause("Disponibile marciapiede alto.", 0, 0)
LowClause == Clause("Disponibile marciapiede basso.", 0, 0)
HighLowClause == Clause("Disponibili marciapiedi alto e basso.", 0, 0)
GenericClause == Clause("Rispetta tutti i vincoli configurati.", 0, 0)

\* lines 333-338
reason_length_part(record, train_length, rule) ==
    IF rule.allow_no_platform /\ record.len_compl = 0
    THEN <<NoPlatformClause>>
    ELSE <<PlatformClause(record.len_compl, train_length)>>

\* lines 340-343
reason_capacity_part(record, train_length) ==
    IF record.cap_fun > 0
    THEN <<CapacityClause(record.cap_fun, train_length)>> ELSE <<>>

\* lines 345-346
reason_bis_part(record, rule) ==
    IF rule.allow_bis /\ record.suffix = "BIS" THEN <<BisClause>> ELSE <<>>

\* lines 348-356
reason_band_part(record, rule) ==
    IF rule.preferred_min_track_number # None
       /\ rule.preferred_max_track_number # None
    THEN IF record.priority_class = 0
         THEN <<PreferredClause(rule.preferred_min_track_number,
                                rule.preferred_max_track_number)>>
         ELSE <<SupportClause(rule.preferred_min_track_number,
                              rule.preferred_max_track_number)>>
    ELSE <<>>

\* proximity note that forgets the twin branch
reason_proximity_part_no_twin(record, planned) ==
    IF planned.num = None THEN <<>>
    ELSE IF record.num # None /\ record.proximity # Inf
         THEN IF record.num = planned.num THEN <<SameNumberClause>>
              ELSE IF record.proximity = 1 THEN <<AdjacentClause>>
              ELSE <<DistanceClause(record.proximity)>>
    ELSE <<IncomparableClause>>

\* lines 358-370
reason_proximity_part(record, planned) ==
    IF planned.num = None THEN <<>>
    ELSE IF record.num = planned.num /\ record.suffix # planned.suffix
         THEN <<VariantClause>>
    ELSE IF record.num # None /\ record.proximity # Inf
         THEN IF record.proximity = 0 THEN <<SameNumberClause>>
              ELSE IF record.proximity = 1 THEN <<AdjacentClause>>
              ELSE <<DistanceClause(record.proximity)>>
    ELSE IF record.proximity = Inf THEN <<IncomparableClause>>
    ELSE <<>>

\* lines 372-375
reason_similarity_part(record) ==
    IF record.similarity_score >= 2 THEN <<IdenticalPlatformClause>>
    ELSE IF record.similarity_score = 1 THEN <<CoherentProfileClause>>
    ELSE <<>>

\* lines 377-383
reason_profile_part(info) ==
    LET hl == profile_tuple(info)
    IN IF hl[1] = 1 /\ hl[2] = 0 THEN <<HighClause>>
       ELSE IF hl[2] = 1 /\ hl[1] = 0 THEN <<LowClause>>
       ELSE IF hl[1] = 1 /\ hl[2] = 1 THEN <<HighLowClause>>
       ELSE <<>>

\* reason that ends with the generic clause whatever was said before
build_reason_generic_always(record, train_length, planned, trk, rule) ==
    reason_length_part(record, train_length, rule)
    \o reason_capacity_part(record, train_length)
    \o reason_bis_part(record, rule)
    \o reason_band_part(record, rule)
    \o reason_proximity_part(record, planned)
    \o reason_similarity_part(record)
    \o reason_profile_part(tracks_get(trk, record.name))
    \o <<GenericClause>>

\* _build_reason
build_reason(record, train_length, planned, trk, rule) ==
    LET parts == reason_length_part(record, train_length, rule)
                 \o reason_capacity_part(record, train_length)
                 \o reason_bis_part(record, rule)
                 \o reason_band_part(record, rule)
                 \o reason_proximity_part(record, planned)
                 \o reason_similarity_part(record)
                 \o reason_profile_part(tracks_get(trk, record.name))
    IN IF parts = <<>> THEN <<GenericClause>> ELSE parts

-----------------------------------------------------------------------------
(* select_tracks *)

\* candidates[:7]
MaxSuggestions == 7

Raised(exc, msg, warnings) ==
    [status |-> "raised", exc |-> exc, msg |-> msg,
     suggestions |-> <<>>, candidates |-> <<>>, log |-> warnings]

Returned(suggestions, cands, warnings) ==
    [status |-> "returned", exc |-> "", msg |-> "",
     suggestions |-> suggestions, candidates |-> cands, log |-> warnings]

\* candidate loop that forgets the length check
feasible_metadata_no_length(metadata, rule, planned, train_length) ==
    SelectSeq(metadata, LAMBDA m :
        ~is_track_excluded(m.name, m.num, m.suffix, rule,
                           planned.num, planned.suffix))

\* the metadata entries that pass the two filters of the candidate loop
feasible_metadata(metadata, rule, planned, train_length) ==
    SelectSeq(metadata, LAMBDA m :
        /\ ~is_track_excluded(m.name, m.num, m.suffix, rule,
                              planned.num, planned.suffix)
        /\ meets_length_requirements(m.len_compl, m.cap_fun,
                                     train_length, rule))

\* the exception of the first candidate whose record cannot be built, or "ok"
first_build_outcome(feasible, planned, trk) ==
    LET bad == {i \in 1..Len(feasible) :
                   build_outcome(feasible[i].name, planned, trk) # "ok"}
    IN IF bad = {} THEN "ok"
       ELSE build_outcome(
                feasible[CHOOSE i \in bad : \A j \in bad : i <= j].name,
                planned, trk)

\* lines 448-461: build the records and sort them
ranked_candidates(feasible, planned, trk, rule, priority) ==
    sort_candidates(
        [i \in 1..Len(feasible) |->
            build_candidate_record(feasible[i].name, feasible[i], planned,
                                   trk, rule, priority)],
        priority)

\* shortlist that is never cut
build_suggestions_uncut(cands, train_length, planned, trk, rule) ==
    [i \in 1..Len(cands) |->
        [track  |-> cands[i].name,
         reason |-> build_reason(cands[i], train_length, planned, trk, rule)]]

\* lines 463-477: the first seven, each with its reason
build_suggestions(cands, train_length, planned, trk, rule) ==
    LET n == IF Len(cands) < MaxSuggestions THEN Len(cands)
             ELSE MaxSuggestions
    IN [i \in 1..n |->
           [track  |-> cands[i].name,
            reason |-> build_reason(cands[i], train_length, planned, trk, rule)]]

\* the two checks in the other order
request_error_config_first(train_length, rule, priority) ==
    IF ~rule.present \/ ~priority.present
    THEN "Configuration objects are required."
    ELSE IF train_length <= 0 THEN "Train length must be greater than zero."
    ELSE ""

\* lines 400-404: the checks made before any computation; "" when both pass
request_error(train_length, rule, priority) ==
    IF train_length <= 0 THEN "Train length must be greater than zero."
    ELSE IF ~rule.present \/ ~priority.present
         THEN "Configuration objects are required."
    ELSE ""

select_tracks(train_length, trk, planned_ref, rule, priority) ==
    IF request_error(train_length, rule, priority) # ""
    THEN Raised("ValueError", request_error(train_length, rule, priority), {})
    ELSE
    LET metadata == build_track_metadata(trk)
        w1 == validation_warnings(trk)
    IN IF metadata = <<>>
       THEN Raised("ValueError", "No valid tracks found in dataset.", w1)
       ELSE
       LET planned == resolve_planned_track(planned_ref, metadata, trk)
           w2 == w1 \cup planned_warnings(planned_ref, metadata, trk)
           feasible == feasible_metadata(metadata, rule, planned, train_length)
           outcome == first_build_outcome(feasible, planned, trk)
       IN IF outcome = "TypeError"
          THEN Raised("TypeError",
                      "'>' not supported between instances of 'str' and 'int'",
                      w2)
          ELSE IF outcome = "ValueError"
          THEN Raised("ValueError", "invalid literal for int() with base 10",
                      w2)
          ELSE
          LET cands == ranked_candidates(feasible, planned, trk, rule, priority)
          IN Returned(build_suggestions(cands, train_length, planned, trk, rule),
                      cands, w2)

-----------------------------------------------------------------------------
(* Configuration objects *)

Rule(ab, anp, mn, mx, pmn, pmx, names, patterns, numbers) ==
    [present |-> TRUE, allow_bis |-> ab, allow_no_platform |-> anp,
     min_track_number |-> mn, max_track_number |-> mx,
     preferred_min_track_number |-> pmn, preferred_max_track_number |-> pmx,
     deny_track_names |-> names, deny_track_patterns |-> patterns,
     deny_track_numbers |-> numbers]

DEFAULT_CATEGORY_RULES ==
    [k \in {"default", "INV", "PRM", "ES*", "LH"} |->
        CASE k = "default" ->
                 Rule(FALSE, FALSE, None, None, None, None, {}, <<>>, {})
          [] k = "INV" ->
                 Rule(TRUE, TRUE, None, None, None, None, {}, <<>>, {})
          [] k = "PRM" ->
                 Rule(FALSE, FALSE, None, None, None, None, {<<"I", "NORD">>},
                      <<[lead_space |-> TRUE, tok |-> "NORD"]>>, {})
          [] k = "ES*" ->
                 Rule(FALSE, FALSE, None, None, None, None, {}, <<>>, {15})
          [] k = "LH" ->
                 Rule(FALSE, FALSE, 1, 14, 2, 13, {}, <<>>, {})]

\* category_rule=None
NoRule == [DEFAULT_CATEGORY_RULES["default"] EXCEPT !.present = FALSE]

Criterion(key) == [key |-> key, weight |-> 1, direction |-> 1]

Priority(criteria, bonus) ==
    [present |-> TRUE, criteria |-> criteria, same_number_bonus |-> bonus]

DEFAULT_PRIORITY_CONFIGS ==
    [k \in {"default", "INV"} |->
        CASE k = "default" ->
                 Priority(<<Criterion("priority_class"), Criterion("proximity"),
                            Criterion("similarity"), Criterion("same_number"),
                            Criterion("length_delta"), Criterion("track_number"),
                            Criterion("suffix_flag")>>, -1)
          [] k = "INV" ->
                 Priority(<<Criterion("no_platform_first"),
                            Criterion("bis_preference"),
                            Criterion("priority_class"), Criterion("proximity"),
                            Criterion("similarity"), Criterion("same_number"),
                            Criterion("length_delta"), Criterion("track_number"),
                            Criterion("suffix_flag")>>, -1)]

\* priority_config=None
NoPriority == [DEFAULT_PRIORITY_CONFIGS["default"] EXCEPT !.present = FALSE]

-----------------------------------------------------------------------------
(* Configuration service: stored rows and fallback resolution *)

LH_CATEGORIES ==
    {"LH", "EC", "EN", "IC", "ICN", "EXP", "NCL", "ES*", "FR", "FA", "FB",
     "NTV"}

\* (category or "").upper().strip() on the category strings of the model
upper_strip(category) ==
    CASE category = " ic" -> "IC"
      [] category = "reg " -> "REG"
      [] category = "default" -> "DEFAULT"
      [] category = "es*" -> "ES*"
      [] OTHER -> category

\* cat.startswith("ES") on the upper-cased category strings of the model
startswith_ES(cat) == cat \in {"ES", "ES*", "ESC"}

normalize_category_key(category) ==
    LET cat == upper_strip(category)
    IN IF cat \in DOMAIN DEFAULT_CATEGORY_RULES THEN cat
       ELSE IF cat \in LH_CATEGORIES THEN "LH"
       ELSE IF startswith_ES(cat) THEN "ES*"
       ELSE IF cat = "PRM" THEN "PRM"
       ELSE IF cat = "INV" THEN "INV"
       ELSE "default"

\* session.get(Model, key) on a table held as a map from primary key to row;
\* a missing row is Python None
NoRow == [stored |-> FALSE]

session_get(rows, key) ==
    IF key \in DOMAIN rows THEN rows[key] ELSE NoRow

\* list -> set
SetOf(seq) == {seq[i] : i \in 1..Len(seq)}

load_rule_from_row(row, fallback) ==
    IF ~row.stored THEN fallback
    ELSE Rule(row.allow_bis, row.allow_no_platform, row.min_track_number,
              row.max_track_number, row.preferred_min_track_number,
              row.preferred_max_track_number, SetOf(row.deny_track_names),
              row.deny_track_patterns, SetOf(row.deny_track_numbers))

load_priority_from_row(row, fallback) ==
    IF ~row.stored THEN fallback
    ELSE Priority(row.criteria, row.same_number_bonus)

\* variant that never consults the family row
get_category_rule_exact_only(rows, category) ==
    LET raw_category == upper_strip(category)
        key == normalize_category_key(raw_category)
    IN load_rule_from_row(session_get(rows, raw_category),
                          DEFAULT_CATEGORY_RULES[key])

get_category_rule(rows, category) ==
    LET raw_category == upper_strip(category)
        key == normalize_category_key(raw_category)
        fallback == DEFAULT_CATEGORY_RULES[key]
        exact == session_get(rows, raw_category)
        row == IF ~exact.stored /\ key # raw_category
               THEN session_get(rows, key) ELSE exact
    IN load_rule_from_row(row, fallback)

get_priority_config(rows, category) ==
    LET raw_category == upper_strip(category)
        key == normalize_category_key(raw_category)
        fallback == IF key \in DOMAIN DEFAULT_PRIORITY_CONFIGS
                    THEN DEFAULT_PRIORITY_CONFIGS[key]
                    ELSE DEFAULT_PRIORITY_CONFIGS["default"]
        exact == session_get(rows, raw_category)
        row == IF ~exact.stored /\ key # raw_category
               THEN session_get(rows, key) ELSE exact
    IN load_priority_from_row(row, fallback)

\* list(dict.fromkeys(seq)): first occurrences, in order
RECURSIVE dedupe(_)
dedupe(seq) ==
    IF seq = <<>> THEN <<>>
    ELSE LET front == dedupe(SubSeq(seq, 1, Len(seq) - 1))
             last == seq[Len(seq)]
         IN IF last \in SetOf(front) THEN front ELSE Append(front, last)

\* payload.get(key, default) for the two keys read with a default
payload_get(payload, key, default) ==
    IF key \in payload.keys THEN payload[key] ELSE default

\* CategoryRule(category=norm) before its first flush: the flags are None,
\* which bool() turns into False
new_rule_row == [stored |-> TRUE, allow_bis |-> FALSE,
                 allow_no_platform |-> FALSE]

\* upsert that keeps the twin flag of a row that exists already
upserted_rule_row_flag_kept(rows, norm, payload) ==
    LET found == session_get(rows, norm)
        row == IF found.stored THEN found ELSE new_rule_row
    IN [stored |-> TRUE,
        allow_bis |-> IF found.stored THEN row.allow_bis
                      ELSE payload_get(payload, "allow_bis", row.allow_bis),
        allow_no_platform |->
            payload_get(payload, "allow_no_platform", row.allow_no_platform),
        min_track_number |-> payload.min_track_number,
        max_track_number |-> payload.max_track_number,
        preferred_min_track_number |-> payload.preferred_min_track_number,
        preferred_max_track_number |-> payload.preferred_max_track_number,
        deny_track_names |-> dedupe(payload.deny_track_names),
        deny_track_patterns |-> dedupe(payload.deny_track_patterns),
        deny_track_numbers |-> dedupe(payload.deny_track_numbers)]

\* the row written by upsert_category_rule
upserted_rule_row(rows, norm, payload) ==
    LET found == session_get(rows, norm)
        row == IF found.stored THEN found ELSE new_rule_row
    IN [stored |-> TRUE,
        allow_bis |-> payload_get(payload, "allow_bis", row.allow_bis),
        allow_no_platform |->
            payload_get(payload, "allow_no_platform", row.allow_no_platform),
        min_track_number |-> payload.min_track_number,
        max_track_number |-> payload.max_track_number,
        preferred_min_track_number |-> payload.preferred_min_track_number,
        preferred_max_track_number |-> payload.preferred_max_track_number,
        deny_track_names |-> dedupe(payload.deny_track_names),
        deny_track_patterns |-> dedupe(payload.deny_track_patterns),
        deny_track_numbers |-> dedupe(payload.deny_track_numbers)]

\* table after session.add / commit of one row
put_row(rows, norm, row) ==
    [k \in DOMAIN rows \cup {norm} |-> IF k = norm THEN row ELSE rows[k]]

\* table after session.delete / commit; unchanged when the row is absent
delete_row(rows, norm) ==
    [k \in DOMAIN rows \ {norm} |-> rows[k]]

upserted_priority_row(criteria, same_number_bonus) ==
    [stored |-> TRUE, criteria |-> criteria,
     same_number_bonus |-> same_number_bonus]

-----------------------------------------------------------------------------
(* Bounded inputs *)

\* rows an administrator can store (upsert_category_rule): twins allowed on
\* platform tracks, a soft band without a hard band
CustomRule == Rule(TRUE, FALSE, None, None, 5, 7, {}, <<>>, {})

\* rows an administrator can store (upsert_priority_config)
EmptyPriority == Priority(<<>>, -1)
ReversedPriority ==
    Priority(<<[key |-> "proximity", weight |-> 2, direction |-> -1],
               Criterion("track_number")>>, -1)
OddPriority ==
    Priority(<<Criterion(""), Criterion("same_number"), Criterion("colour"),
               [key |-> "proximity", weight |-> 2, direction |-> 1]>>, 1)

ConfigPairs ==
    {<<DEFAULT_CATEGORY_RULES[k], DEFAULT_PRIORITY_CONFIGS["default"]>> :
        k \in DOMAIN DEFAULT_CATEGORY_RULES}
    \cup {<<CustomRule, DEFAULT_PRIORITY_CONFIGS["default"]>>,
          <<CustomRule, ReversedPriority>>,
          <<CustomRule, OddPriority>>,
          <<DEFAULT_CATEGORY_RULES["INV"], DEFAULT_PRIORITY_CONFIGS["INV"]>>,
          <<DEFAULT_CATEGORY_RULES["INV"], EmptyPriority>>}
    \cup {<<NoRule, DEFAULT_PRIORITY_CONFIGS["default"]>>,
          <<DEFAULT_CATEGORY_RULES["default"], NoPriority>>,
          <<NoRule, NoPriority>>}

TrainLengths == {-1, 0, 100, 250}

Name(toks) == [toks |-> toks, canon |-> TRUE]
\* a spelling in lower case or with extra blanks
Raw(toks) == [toks |-> toks, canon |-> FALSE]

\* planned_track: None / "", "I", "V", "V BIS", "5", "TRONCO", "XX"
PlannedRefs ==
    {Name(<<>>), Name(<<"I">>), Name(<<"V">>), Name(<<"V", "BIS">>), Name(<<"5">>),
     Name(<<"TRONCO">>), Name(<<"XX">>)}

Track(name, total, high, low, cap) ==
    [name |-> name,
     info |-> [marciapiede_complessivo_m |-> total,
               marciapiede_alto_m |-> high, marciapiede_basso_m |-> low,
               capacita_funzionale_m |-> cap, capacita_funzionle_m |-> None]]

Roster ==
    <<Track(Name(<<"I">>), 300, 300, 0, None),
      Track(Name(<<"I", "NORD">>), 300, 0, 300, None),
      Track(Raw(<<"V">>), 250, 0, 0, None),
      Track(Name(<<"V">>), 300, 300, 0, None),
      Track(Name(<<"V">>), NonNumeric, 300, 0, None),
      Track(Name(<<"V", "BIS">>), 280, 0, 280, None),
      Track(Name(<<"VI">>), None, 0, 0, None),
      Track(Name(<<"VII">>), 200, 200, 200, 150),
      Track(Name(<<"XV">>), 0, 0, 0, None),
      Track(Name(<<"XVI">>), 100, 100, 0, 260),
      Track(Name(<<"TRONCO">>), 300, 0, 0, None),
      Track(Name(<<"SSE", "AMB.">>), 300, 0, 0, None)>>

\* largest inventory of the main specification
MaxTracks == 3

RECURSIVE pick(_, _, _)
\* the entries of roster whose index is in S, in roster order
pick(roster, S, i) ==
    IF i > Len(roster) THEN <<>>
    ELSE (IF i \in S THEN <<roster[i]>> ELSE <<>>) \o pick(roster, S, i + 1)

\* a dict has one entry per key
DistinctKeys(trk) ==
    \A i, j \in 1..Len(trk) : trk[i].name = trk[j].name => i = j

Inventories ==
    {trk \in {pick(Roster, S, 1) : S \in SUBSET (1..Len(Roster))} :
        Len(trk) <= MaxTracks /\ DistinctKeys(trk)}

-----------------------------------------------------------------------------
(* State machine: one request to select_tracks *)

NoResult ==
    [status |-> "none", exc |-> "", msg |-> "", suggestions |-> <<>>]

\* the admin endpoints have not been used
NoAuth == [secret |-> "", ttl_env |-> "", now |-> 0, issued |-> {},
           outcome |-> [op |-> "none"]]

\* no request to the suggestions endpoint yet
NoResponse == [status |-> 0, detail |-> "", alternatives |-> <<>>, items |-> <<>>]

\* no call of the configuration service yet
NoCall == [op |-> "none", category |-> "", returned |-> NoRule]

TypeOK ==
    /\ pc \in {"idle", "done"}
    /\ train_length_m \in Int
    /\ result.status \in {"none", "raised", "returned"}

InitRequest(inventories, lengths, refs, configs) ==
    /\ tracks \in inventories
    /\ train_length_m \in lengths
    /\ planned_track \in refs
    /\ \E cp \in configs : category_rule = cp[1] /\ priority_config = cp[2]
    /\ pc = "idle"
    /\ candidates = <<>>
    /\ log = {}
    /\ result = NoResult
    /\ rule_rows = <<>>
    /\ priority_rows = <<>>
    /\ call = NoCall
    /\ trains = <<>>
    /\ response = NoResponse
    /\ last_upsert = <<>>
    /\ auth = NoAuth

Init == InitRequest(Inventories, TrainLengths, PlannedRefs, ConfigPairs)

SelectTracks ==
    /\ pc = "idle"
    /\ LET out == select_tracks(train_length_m, tracks, planned_track,
                                category_rule, priority_config)
       IN /\ result' = [status |-> out.status, exc |-> out.exc,
                        msg |-> out.msg, suggestions |-> out.suggestions]
          /\ candidates' = out.candidates
          /\ log' = out.log
    /\ pc' = "done"
    /\ UNCHANGED <<tracks, train_length_m, planned_track, category_rule,
                   priority_config, rule_rows, priority_rows, call, trains,
                   response, last_upsert, auth>>

Next == SelectTracks

Spec == Init /\ [][Next]_vars

-----------------------------------------------------------------------------
(* A station with many platform tracks: more feasible candidates than the   *)
(* shortlist holds                                                          *)

\* tracks I, II, ... of the large station
WideTracks == 9

WideRoster ==
    [i \in 1..WideTracks |->
        Track(Name(<<CHOOSE t \in DOMAIN ROMAN : ROMAN[t] = i>>),
              100 + 100 * (i % 3),
              IF i % 2 = 1 THEN 100 ELSE 0,
              IF i % 4 < 2 THEN 100 ELSE 0,
              None)]

WideInventories == {pick(WideRoster, S, 1) : S \in SUBSET (1..WideTracks)}

WideConfigPairs ==
    {<<DEFAULT_CATEGORY_RULES["default"], DEFAULT_PRIORITY_CONFIGS["default"]>>,
     <<DEFAULT_CATEGORY_RULES["LH"], DEFAULT_PRIORITY_CONFIGS["default"]>>,
     <<DEFAULT_CATEGORY_RULES["INV"], DEFAULT_PRIORITY_CONFIGS["INV"]>>}

InitWide ==
    InitRequest(WideInventories, {100, 250}, {Name(<<>>), Name(<<"V">>)},
                WideConfigPairs)

SpecWide == InitWide /\ [][Next]_vars

-----------------------------------------------------------------------------
(* A station whose tracks cover the combinations of platform length and     *)
(* functional capacity                                                      *)

PlatformLengths == <<0, 100, 200, 300>>
Capacities == <<None, 150, 260>>

\* track number i has the i-th combination of length and capacity
LengthRoster ==
    [i \in 1..(Len(PlatformLengths) * Len(Capacities)) |->
        LET total == PlatformLengths[((i - 1) \div Len(Capacities)) + 1]
            cap == Capacities[((i - 1) % Len(Capacities)) + 1]
        IN Track(Name(<<CHOOSE t \in DOMAIN ROMAN : ROMAN[t] = i>>),
                 total, total, 0, cap)]

\* largest inventory of the length station
LengthTracks == 2

LengthInventories ==
    {pick(LengthRoster, S, 1) : S \in {T \in SUBSET (1..Len(LengthRoster)) :
                                           Cardinality(T) <= LengthTracks}}

LengthConfigPairs ==
    {<<DEFAULT_CATEGORY_RULES["default"], DEFAULT_PRIORITY_CONFIGS["default"]>>,
     <<DEFAULT_CATEGORY_RULES["INV"], DEFAULT_PRIORITY_CONFIGS["INV"]>>}

InitLength ==
    InitRequest(LengthInventories, {100, 180, 250}, {Name(<<>>)},
                LengthConfigPairs)

SpecLength == InitLength /\ [][Next]_vars

-----------------------------------------------------------------------------
(* A station whose planned tracks include a platform-less one and whose     *)
(* inventory has a key spelled in lower case                                *)

\* in the order of load_tracks_dataset (ORDER BY name)
ScoreRoster ==
    <<Track(Name(<<"I">>), 200, 0, 200, None),
      Track(Name(<<"IX">>), 300, 0, 0, None),
      Track(Name(<<"TRONCO">>), 300, 0, 0, None),
      Track(Name(<<"VII">>), 300, 300, 0, None),
      Track(Name(<<"XV">>), 0, 0, 0, None),
      Track(Raw(<<"V">>), 300, 300, 0, None)>>

ScoreInventories ==
    {pick(ScoreRoster, S, 1) : S \in SUBSET (1..Len(ScoreRoster))}

ScoreRefs ==
    {Name(<<>>), Name(<<"I">>), Name(<<"VII">>), Name(<<"XV">>),
     Name(<<"XX">>)}

\* rows an administrator can store: a preferred band with one bound only,
\* a hard band without a preferred band
HalfBandRule == Rule(FALSE, FALSE, None, None, 5, None, {}, <<>>, {})
HardBandRule == Rule(FALSE, FALSE, 2, 9, None, None, {}, <<>>, {})

\* a stored priority config that switches proximity off with weight 0
ZeroWeightPriority ==
    Priority(<<[key |-> "proximity", weight |-> 0, direction |-> 1],
               Criterion("track_number")>>, -1)

ScoreConfigPairs ==
    {<<DEFAULT_CATEGORY_RULES["default"], DEFAULT_PRIORITY_CONFIGS["default"]>>,
     <<DEFAULT_CATEGORY_RULES["LH"], DEFAULT_PRIORITY_CONFIGS["default"]>>,
     <<DEFAULT_CATEGORY_RULES["INV"], DEFAULT_PRIORITY_CONFIGS["INV"]>>,
     <<CustomRule, DEFAULT_PRIORITY_CONFIGS["default"]>>,
     <<HalfBandRule, DEFAULT_PRIORITY_CONFIGS["default"]>>,
     <<HardBandRule, DEFAULT_PRIORITY_CONFIGS["default"]>>,
     <<DEFAULT_CATEGORY_RULES["default"], ZeroWeightPriority>>,
     <<DEFAULT_CATEGORY_RULES["default"], EmptyPriority>>}

InitScore ==
    InitRequest(ScoreInventories, {100, 250}, ScoreRefs, ScoreConfigPairs)

SpecScore == InitScore /\ [][Next]_vars

-----------------------------------------------------------------------------
(* Configuration store: administrators upsert and delete rows, requests      *)
(* resolve the configuration of a category                                   *)

\* category strings passed to the lookups
Categories ==
    LH_CATEGORIES
    \cup {"", "REG", "reg ", " ic", "default", "DEFAULT", "PRM", "INV", "ES",
          "ESC"}

\* category strings the administrator stores rows under
StoreCategories == {" ic", "LH", "REG", "default", "ES*"}

\* PUT /admin/config/category-rules payload with every key
FullPayload ==
    [keys |-> {"allow_bis", "allow_no_platform"},
     allow_bis |-> TRUE, allow_no_platform |-> FALSE,
     min_track_number |-> 2, max_track_number |-> 9,
     preferred_min_track_number |-> None,
     preferred_max_track_number |-> None,
     deny_track_names |-> <<<<"I", "NORD">>, <<"I", "NORD">>>>,
     deny_track_patterns |-> <<>>,
     deny_track_numbers |-> <<15, 15>>]

\* a dict that carries only the preferred band
BandPayload ==
    [keys |-> {},
     allow_bis |-> FALSE, allow_no_platform |-> FALSE,
     min_track_number |-> None, max_track_number |-> None,
     preferred_min_track_number |-> 5,
     preferred_max_track_number |-> 7,
     deny_track_names |-> <<>>,
     deny_track_patterns |-> <<>>,
     deny_track_numbers |-> <<>>]

RulePayloads == {FullPayload, BandPayload}

PriorityPayloads ==
    {[criteria |-> <<Criterion("track_number")>>, same_number_bonus |-> 0],
     [criteria |-> <<>>, same_number_bonus |-> -1]}

\* rows held by the two tables together
MaxRows == 2

RowCount == Cardinality(DOMAIN rule_rows) + Cardinality(DOMAIN priority_rows)

InitStore ==
    InitRequest({<<>>}, {100}, {Name(<<>>)}, {<<NoRule, NoPriority>>})

UpsertCategoryRule ==
    \E category \in StoreCategories, payload \in RulePayloads :
        LET norm == upper_strip(category)
            row == upserted_rule_row(rule_rows, norm, payload)
        IN /\ norm \in DOMAIN rule_rows \/ RowCount < MaxRows
           /\ rule_rows' = put_row(rule_rows, norm, row)
           /\ call' = [op |-> "upsert_category_rule", category |-> category,
                       returned |->
                           load_rule_from_row(row,
                               DEFAULT_CATEGORY_RULES[
                                   normalize_category_key(norm)])]
           /\ UNCHANGED <<tracks, train_length_m, planned_track,
                          category_rule, priority_config, pc, candidates, log,
                          result, priority_rows, trains, response, auth>>
           /\ last_upsert' = [k \in DOMAIN last_upsert \cup {norm} |->
                                  IF k = norm THEN payload ELSE last_upsert[k]]

DeleteCategoryRule ==
    \E category \in StoreCategories :
        /\ rule_rows' = delete_row(rule_rows, upper_strip(category))
        /\ call' = [op |-> "delete_category_rule", category |-> category,
                    returned |-> NoRule]
        /\ UNCHANGED <<tracks, train_length_m, planned_track, category_rule,
                       priority_config, pc, candidates, log, result,
                       priority_rows, trains, response, auth>>
        /\ last_upsert' = [k \in DOMAIN last_upsert \ {upper_strip(category)}
                                  |-> last_upsert[k]]

UpsertPriorityConfig ==
    \E category \in StoreCategories, payload \in PriorityPayloads :
        LET norm == upper_strip(category)
            row == upserted_priority_row(payload.criteria,
                                         payload.same_number_bonus)
            key == normalize_category_key(norm)
        IN /\ norm \in DOMAIN priority_rows \/ RowCount < MaxRows
           /\ priority_rows' = put_row(priority_rows, norm, row)
           /\ call' = [op |-> "upsert_priority_config", category |-> category,
                       returned |->
                           load_priority_from_row(row,
                               IF key \in DOMAIN DEFAULT_PRIORITY_CONFIGS
                               THEN DEFAULT_PRIORITY_CONFIGS[key]
                               ELSE DEFAULT_PRIORITY_CONFIGS["default"])]
           /\ UNCHANGED <<tracks, train_length_m, planned_track,
                          category_rule, priority_config, pc, candidates, log,
                          result, rule_rows, trains,
                       response, last_upsert, auth>>

DeletePriorityConfig ==
    \E category \in StoreCategories :
        /\ priority_rows' = delete_row(priority_rows, upper_strip(category))
        /\ call' = [op |-> "delete_priority_config", category |-> category,
                    returned |-> NoPriority]
        /\ UNCHANGED <<tracks, train_length_m, planned_track, category_rule,
                       priority_config, pc, candidates, log, result,
                       rule_rows, trains,
                       response, last_upsert, auth>>

GetCategoryRule ==
    \E category \in Categories :
        /\ call' = [op |-> "get_category_rule", category |-> category,
                    returned |-> get_category_rule(rule_rows, category)]
        /\ UNCHANGED <<tracks, train_length_m, planned_track, category_rule,
                       priority_config, pc, candidates, log, result,
                       rule_rows, priority_rows, trains,
                       response, last_upsert, auth>>

GetPriorityConfig ==
    \E category \in Categories :
        /\ call' = [op |-> "get_priority_config", category |-> category,
                    returned |-> get_priority_config(priority_rows, category)]
        /\ UNCHANGED <<tracks, train_length_m, planned_track, category_rule,
                       priority_config, pc, candidates, log, result,
                       rule_rows, priority_rows, trains,
                       response, last_upsert, auth>>

NextStore ==
    \/ UpsertCategoryRule
    \/ DeleteCategoryRule
    \/ UpsertPriorityConfig
    \/ DeletePriorityConfig
    \/ GetCategoryRule
    \/ GetPriorityConfig

SpecStore == InitStore /\ [][NextStore]_vars

-----------------------------------------------------------------------------
(* POST /tracks/suggestions: one request with several trains                *)

DEFAULT_SIGNAL_CODE == "TBD"

\* normalise_signal_string: the stripped, upper-case core of the planned
\* signal and whether an "f" ends it
normalise_signal_string(value) ==
    CASE value = "VII" -> [core |-> <<"VII">>, has_suffix |-> FALSE]
      [] value = " ixf" -> [core |-> <<"IX">>, has_suffix |-> TRUE]
      [] value = "v" -> [core |-> <<"V">>, has_suffix |-> FALSE]
      [] value = "XX" -> [core |-> <<"XX">>, has_suffix |-> FALSE]
      [] OTHER -> [core |-> <<>>, has_suffix |-> FALSE]

\* build_signal_lookup: the records of load_tracks_dataset carry no
\* signal_code, so the lookup has no entry
signal_lookup_get(dataset, normalised_signal) == Name(<<>>)

\* lines 58-70: the dataset key the planned signal stands for, or None
planned_track_name(dataset, planned_signal) ==
    LET sig == normalise_signal_string(planned_signal)
        by_signal == signal_lookup_get(dataset, sig.core)
        hits == {i \in 1..Len(dataset) : dataset[i].name.toks = sig.core}
    IN IF planned_signal = "" \/ sig.core = <<>> THEN Name(<<>>)
       ELSE IF ~IsEmptyName(by_signal) THEN by_signal
       ELSE IF hits = {} THEN Name(<<>>)
       ELSE dataset[CHOOSE i \in hits : \A j \in hits : i <= j].name

\* signal_for_track: info.get("signal_code") is None for every record
signal_for_track(dataset, track_name) == DEFAULT_SIGNAL_CODE

\* format_signal_output
format_signal_output(signal, append_suffix) ==
    IF signal = "" THEN DEFAULT_SIGNAL_CODE
    ELSE IF append_suffix /\ signal # DEFAULT_SIGNAL_CODE THEN signal \o "f"
    ELSE signal

\* lines 72-74: the two caches, filled on the first train of a category
fill_caches(caches, train_category, rrows, prows) ==
    IF train_category \in DOMAIN caches THEN caches
    ELSE [k \in DOMAIN caches \cup {train_category} |->
             IF k = train_category
             THEN [rule |-> get_category_rule(rrows, train_category),
                   priority |-> get_priority_config(prows, train_category)]
             ELSE caches[k]]

\* cache read that takes the entry of the first category it stored
cached_config_first_entry(caches, first_category, train_category) ==
    caches[first_category]

\* lines 83-84: category_rule_cache[train_category], priority_cache[...]
cached_config(caches, first_category, train_category) ==
    caches[train_category]

\* lines 89-101: the alternatives of one train
format_alternatives(dataset, suggestions, append_suffix) ==
    [i \in 1..Len(suggestions) |->
        [track |-> format_signal_output(
                       signal_for_track(dataset, suggestions[i].track),
                       append_suffix),
         track_name |-> suggestions[i].track,
         reason |-> suggestions[i].reason]]

\* HTTPException(400) for a ValueError of select_tracks; anything else
\* escapes the handler as a server error
ErrorResponse(out) ==
    [status |-> IF out.exc = "ValueError" THEN 400 ELSE 500,
     detail |-> out.msg, alternatives |-> <<>>, items |-> <<>>]

\* lines 105-107
SuggestionResponse(results) ==
    [status |-> 200, detail |-> "",
     alternatives |-> IF Len(results) = 1 THEN results[1].alternatives
                      ELSE <<>>,
     items |-> results]

RECURSIVE suggestion_loop(_, _, _, _, _, _, _)
\* lines 55-103: the loop over payload.trains from train i on
suggestion_loop(batch, i, dataset, rrows, prows, caches, results) ==
    IF i > Len(batch) THEN SuggestionResponse(results)
    ELSE
    LET train == batch[i]
        first == IF batch[1].is_prm THEN "PRM" ELSE batch[1].train_category
        train_category == IF train.is_prm THEN "PRM" ELSE train.train_category
        planned == planned_track_name(dataset, train.planned_signal)
        append_suffix == train.planned_signal # ""
                         /\ normalise_signal_string(train.planned_signal)
                                .has_suffix
        filled == fill_caches(caches, train_category, rrows, prows)
        config == cached_config(filled, first, train_category)
        out == select_tracks(train.train_length_m, dataset, planned,
                             config.rule, config.priority)
    IN IF out.status = "raised" THEN ErrorResponse(out)
       ELSE suggestion_loop(batch, i + 1, dataset, rrows, prows, filled,
                Append(results,
                       [train |-> train,
                        alternatives |->
                            format_alternatives(dataset, out.suggestions,
                                                append_suffix)]))

\* get_suggestions
get_suggestions(batch, dataset, rrows, prows) ==
    suggestion_loop(batch, 1, dataset, rrows, prows, <<>>, <<>>)

\* TrainRequest after validation: category stripped and in upper case,
\* positive length
TrainRequest(category, is_prm, length, planned_signal) ==
    [train_category |-> category, is_prm |-> is_prm,
     train_length_m |-> length, planned_signal |-> planned_signal]

TrainRequests ==
    {TrainRequest("REG", FALSE, 100, ""),
     TrainRequest("REG", FALSE, 250, "VII"),
     TrainRequest("IC", FALSE, 100, " ixf"),
     TrainRequest("INV", FALSE, 250, "v"),
     TrainRequest("REG", TRUE, 100, "XX")}

\* most trains in one request
MaxBatch == 2

Batches ==
    UNION {[1..n -> TrainRequests] : n \in 1..MaxBatch}

\* tables the administrator left behind
BatchRuleTables ==
    {<<>>, put_row(<<>>, "REG", upserted_rule_row(<<>>, "REG", FullPayload))}

BatchPriorityTables ==
    {<<>>,
     put_row(<<>>, "IC",
             upserted_priority_row(<<Criterion("track_number")>>, 0))}

InitBatch ==
    /\ tracks \in ScoreInventories
    /\ trains \in Batches
    /\ rule_rows \in BatchRuleTables
    /\ priority_rows \in BatchPriorityTables
    /\ train_length_m = 100
    /\ planned_track = Name(<<>>)
    /\ category_rule = NoRule
    /\ priority_config = NoPriority
    /\ pc = "idle"
    /\ candidates = <<>>
    /\ log = {}
    /\ result = NoResult
    /\ call = NoCall
    /\ response = NoResponse
    /\ last_upsert = <<>>
    /\ auth = NoAuth

GetSuggestions ==
    /\ pc = "idle"
    /\ response' = get_suggestions(trains, tracks, rule_rows, priority_rows)
    /\ pc' = "done"
    /\ UNCHANGED <<tracks, train_length_m, planned_track, category_rule,
                   priority_config, candidates, log, result, rule_rows,
                   priority_rows, call, trains,
                   last_upsert, auth>>

NextBatch == GetSuggestions

SpecBatch == InitBatch /\ [][NextBatch]_vars

-----------------------------------------------------------------------------
(* Admin session tokens                                                     *)
(* A token is the base64 text of "username:expires_at:signature".  It is    *)
(* modelled by what the decoder makes of it: how it is encoded, the three   *)
(* fields, and for the signature who computed it over what.                 *)

_DEFAULT_TOKEN_TTL == 3600

\* int(os.environ.get("ADMIN_TOKEN_TTL", str(_DEFAULT_TOKEN_TTL))), with
\* the ValueError branch
raw_ttl(ttl_env) ==
    CASE ttl_env = "unset" -> _DEFAULT_TOKEN_TTL
      [] ttl_env = "30" -> 30
      [] ttl_env = "90" -> 90
      [] ttl_env = "-5" -> -5
      [] OTHER -> _DEFAULT_TOKEN_TTL

\* _get_token_ttl
get_token_ttl(ttl_env) ==
    IF raw_ttl(ttl_env) > 60 THEN raw_ttl(ttl_env) ELSE 60

\* hmac.new(secret, "username:expires_at", sha256).hexdigest(): a value
\* that only the same key and the same message give
hmac_hexdigest(secret, username, expires_at) ==
    [kind |-> "hmac", secret |-> secret, username |-> username,
     expires_at |-> expires_at]

\* a signature field that is not the digest of anything: some other ASCII
\* text, or a text with a non-ASCII character
other_signature(kind) ==
    [kind |-> kind, secret |-> "", username |-> "", expires_at |-> 0]

\* the decimal text of expires_at: as str() writes it ("plain"), with a
\* leading zero, blank or plus sign ("padded"), or no number at all
expiry_text(value, form) == [value |-> value, form |-> form]

Token(encoding, username, expires, signature) ==
    [encoding |-> encoding, username |-> username, expires |-> expires,
     signature |-> signature]

\* create_admin_token: the token and its ttl
create_admin_token(username, secret, ttl_env, now) ==
    LET ttl == get_token_ttl(ttl_env)
        expires_at == now + ttl
    IN [token |-> Token("plain", username, expiry_text(expires_at, "plain"),
                        hmac_hexdigest(secret, username, expires_at)),
        ttl |-> ttl]

Unauthorized(detail) == [op |-> "verify", status |-> 401, detail |-> detail]

\* what the server answers when an exception leaves the dependency
Escaped(exc) == [op |-> "verify", status |-> 500, detail |-> exc]

\* verify_admin_token: urlsafe_b64decode drops the characters that are not
\* of the alphabet, so a "noisy" encoding decodes like the plain one;
\* int() accepts a padded number and the message is rebuilt from the
\* integer; hmac.compare_digest raises TypeError on a str with a
\* non-ASCII character, which the except clause does not cover
verify_admin_token(token, secret, now) ==
    IF secret = ""
    THEN [op |-> "verify", status |-> 503,
          detail |-> "Admin API key not configured on the server."]
    ELSE IF token.encoding = "broken" \/ token.expires.form = "text"
    THEN Unauthorized("Invalid admin token.")
    ELSE IF token.signature.kind = "non_ascii" THEN Escaped("TypeError")
    ELSE IF token.signature
            # hmac_hexdigest(secret, token.username, token.expires.value)
    THEN Unauthorized("Invalid admin token.")
    ELSE IF token.expires.value < now
    THEN Unauthorized("Expired admin token.")
    ELSE [op |-> "verify", status |-> 200, detail |-> token.username]

\* the header is absent or empty
MissingToken == Token("missing", "", expiry_text(0, "text"),
                      other_signature("ascii"))

\* require_admin_token
require_admin_token(token, secret, now) ==
    IF token = MissingToken THEN Unauthorized("Missing admin token.")
    ELSE verify_admin_token(token, secret, now)

\* what a client can make of a token it holds
Variants(t) ==
    {t,
     [t EXCEPT !.encoding = "noisy"],
     [t EXCEPT !.encoding = "broken"],
     [t EXCEPT !.expires.form = "padded"],
     [t EXCEPT !.expires.form = "text"],
     [t EXCEPT !.expires.value = @ + 100],
     [t EXCEPT !.username = "root"],
     [t EXCEPT !.signature = other_signature("ascii")],
     [t EXCEPT !.signature = other_signature("non_ascii")]}

Secrets == {"k1", "k2"}
TtlSettings == {"unset", "30", "90", "-5", "abc"}

\* seconds between two observations of the clock, and the last one
ClockStep == 30
MaxTime == 120

\* tokens issued in one run
MaxTokens == 2

InitAuth ==
    /\ tracks = <<>>
    /\ train_length_m = 100
    /\ planned_track = Name(<<>>)
    /\ category_rule = NoRule /\ priority_config = NoPriority
    /\ pc = "idle" /\ candidates = <<>> /\ log = {} /\ result = NoResult
    /\ rule_rows = <<>> /\ priority_rows = <<>> /\ call = NoCall
    /\ trains = <<>> /\ response = NoResponse /\ last_upsert = <<>>
    /\ \E secret \in Secrets, ttl_env \in TtlSettings :
           auth = [secret |-> secret, ttl_env |-> ttl_env, now |-> 0,
                   issued |-> {}, outcome |-> [op |-> "none"]]

AuthFrame ==
    UNCHANGED <<tracks, train_length_m, planned_track, category_rule,
                priority_config, pc, candidates, log, result, rule_rows,
                priority_rows, call, trains, response, last_upsert>>

\* POST /admin/login with the right credentials
AdminLogin ==
    /\ Cardinality(auth.issued) < MaxTokens
    /\ LET made == create_admin_token("admin", auth.secret, auth.ttl_env,
                                      auth.now)
       IN auth' = [auth EXCEPT
                       !.issued = @ \cup {[token |-> made.token,
                                           at |-> auth.now,
                                           secret |-> auth.secret]},
                       !.outcome = [op |-> "login", status |-> 200,
                                    detail |-> "admin"]]
    /\ AuthFrame

\* a request to an admin endpoint: the header carries nothing, a token the
\* client was given, or something made from one
RequireAdminToken ==
    /\ \E token \in {MissingToken}
                    \cup UNION {Variants(r.token) : r \in auth.issued} :
           auth' = [auth EXCEPT
                        !.outcome = require_admin_token(token, auth.secret,
                                                        auth.now)
                                        @@ [token |-> token,
                                            now |-> auth.now,
                                            secret |-> auth.secret]]
    /\ AuthFrame

\* time passes
Tick ==
    /\ auth.now + ClockStep <= MaxTime
    /\ auth' = [auth EXCEPT !.now = @ + ClockStep]
    /\ AuthFrame

\* the server is restarted with another ADMIN_API_KEY
RotateSecret ==
    /\ \E secret \in Secrets \ {auth.secret} :
           auth' = [auth EXCEPT !.secret = secret]
    /\ AuthFrame

NextAuth ==
    \/ AdminLogin
    \/ RequireAdminToken
    \/ Tick
    \/ RotateSecret

SpecAuth == InitAuth /\ [][NextAuth]_vars

-----------------------------------------------------------------------------
(* Properties *)

Done == pc = "done"
ReturnedList == pc = "done" /\ result.status = "returned"

\* what the call derives from its inputs
Metadata == build_track_metadata(tracks)
Planned == resolve_planned_track(planned_track, Metadata, tracks)

Range(seq) == {seq[i] : i \in 1..Len(seq)}
ReturnedNames == {e.track : e \in Range(result.suggestions)}

\* C1 - Feasibility soundness: every track returned by select_tracks has a
\* metadata entry that meets the length requirements and is not excluded,
\* for the rule, train length and resolved planned track of the request.
FeasibilitySoundness ==
    ReturnedList =>
        \A e \in Range(result.suggestions) :
            \E m \in Range(Metadata) :
                /\ m.name = e.track
                /\ meets_length_requirements(m.len_compl, m.cap_fun,
                                             train_length_m, category_rule)
                /\ ~is_track_excluded(m.name, m.num, m.suffix, category_rule,
                                      Planned.num, Planned.suffix)

\* a list is returned while the filter drops one track as excluded and
\* another as too short
FeasibilityWitness ==
    /\ ReturnedList
    /\ result.suggestions # <<>>
    /\ \E m \in Range(Metadata) :
           is_track_excluded(m.name, m.num, m.suffix, category_rule,
                             Planned.num, Planned.suffix)
    /\ \E m \in Range(Metadata) :
           /\ ~is_track_excluded(m.name, m.num, m.suffix, category_rule,
                                 Planned.num, Planned.suffix)
           /\ ~meets_length_requirements(m.len_compl, m.cap_fun,
                                         train_length_m, category_rule)

\* C2 - Self-exclusion: for a non-empty planned-track reference, the track
\* the reference designates (the name the resolver settles on) is never in
\* the returned list.
SelfExclusion ==
    (ReturnedList /\ ~IsEmptyName(planned_track)) =>
        resolved_norm(planned_track, Metadata) \notin ReturnedNames

\* C3 - Data-quality problems never abort a request: with a positive train
\* length, both configuration objects and at least one valid track,
\* select_tracks returns a list whatever records are invalid and whatever
\* the planned-track reference is.
DataQualityNeverAborts ==
    (/\ Done
     /\ train_length_m > 0
     /\ category_rule.present /\ priority_config.present
     /\ Metadata # <<>>)
        => result.status = "returned"

\* the candidates were built and sorted
Ranked == ReturnedList

\* position of a normalised name in the inventory-ordered metadata
MetaPos(name) == CHOOSE k \in 1..Len(Metadata) : Metadata[k].name = name

IsTwin(c) ==
    Planned.num # None /\ c.num = Planned.num /\ c.suffix # Planned.suffix

Farther(c) ==
    Planned.num # None /\ c.num # None /\ Abs(c.num - Planned.num) > 1

Criteria == keyed_criteria(priority_config)

\* first tuple position fed by the proximity criterion, 0 when there is none
ProximityIndex ==
    LET hits == {k \in 1..Len(Criteria) : Criteria[k].key = "proximity"}
    IN IF hits = {} THEN 0 ELSE CHOOSE k \in hits : \A h \in hits : k <= h

\* proximity is a configured criterion and sorts smaller distances first
ProximityAscending ==
    /\ ProximityIndex > 0
    /\ Criteria[ProximityIndex].weight * Criteria[ProximityIndex].direction > 0

\* the two candidates tie on every criterion listed before proximity
TiedBeforeProximity(a, b) ==
    \A k \in 1..(ProximityIndex - 1) :
        sort_key(a, priority_config)[k] = sort_key(b, priority_config)[k]

TwinAheadCase(i, j) ==
    /\ IsTwin(candidates[i])
    /\ Farther(candidates[j])
    /\ candidates[i].priority_class = candidates[j].priority_class
    /\ ProximityAscending
    /\ TiedBeforeProximity(candidates[i], candidates[j])

\* C4 - Twin scoring: a candidate with the planned ordinal and another
\* suffix has proximity 1 and the configured same_number_bonus; where
\* proximity is a configured ascending criterion, it is ranked before every
\* candidate of its tier whose ordinal distance exceeds 1 and that ties with
\* it on the criteria listed before proximity.
TwinScoring ==
    Ranked =>
        /\ \A c \in Range(candidates) :
               IsTwin(c) =>
                   /\ c.proximity = 1
                   /\ c.same_number_bonus = priority_config.same_number_bonus
        /\ \A i, j \in 1..Len(candidates) : TwinAheadCase(i, j) => i < j

\* the twin overtakes a farther track that precedes it in the inventory
TwinScoringWitness ==
    /\ Ranked
    /\ \E i, j \in 1..Len(candidates) :
           /\ TwinAheadCase(i, j)
           /\ i < j
           /\ MetaPos(candidates[j].name) < MetaPos(candidates[i].name)
           /\ candidates[i].same_number_bonus = -1

\* lengths at which feasibility is probed: the request lengths and the
\* platform lengths of the inventory
ProbeLengths ==
    {l \in TrainLengths \cup {1} \cup {m.len_compl : m \in Range(Metadata)}
           \cup {m.len_compl + 1 : m \in Range(Metadata)} : l > 0}

FeasibleNames(train_length) ==
    {m.name : m \in Range(feasible_metadata(Metadata, category_rule, Planned,
                                            train_length))}

\* C5 - Monotonic length filtering: under a rule that does not allow
\* platform-less tracks, every candidate of the request stays feasible at
\* every shorter positive train length.
MonotonicLengthFiltering ==
    (Ranked /\ ~category_rule.allow_no_platform) =>
        \A c \in Range(candidates) :
            \A l \in ProbeLengths :
                l <= train_length_m => c.name \in FeasibleNames(l)

\* a candidate of the long train, and a track that only the short train gets
MonotonicWitness ==
    /\ Ranked /\ ~category_rule.allow_no_platform
    /\ candidates # <<>>
    /\ \E l \in ProbeLengths :
           /\ l < train_length_m
           /\ \E n \in FeasibleNames(l) :
                  n \notin {c.name : c \in Range(candidates)}

FeasibleCount ==
    Len(feasible_metadata(Metadata, category_rule, Planned, train_length_m))

\* C6 - Cardinality bound: the returned list has at most 7 entries and at
\* most as many as there are feasible candidates; with 7 or fewer feasible
\* candidates all of them are returned.
CardinalityBound ==
    ReturnedList =>
        /\ Len(result.suggestions) <= 7
        /\ Len(result.suggestions) <= FeasibleCount
        /\ FeasibleCount <= 7 => ReturnedNames = FeasibleNames(train_length_m)

\* more than seven feasible candidates, seven returned
CardinalityWitness ==
    /\ ReturnedList
    /\ FeasibleCount > 7
    /\ Len(result.suggestions) = 7

InPreferredBand(c) ==
    /\ c.num # None
    /\ category_rule.preferred_min_track_number <= c.num
    /\ c.num <= category_rule.preferred_max_track_number

OutsidePreferredBand(c) == c.num # None /\ ~InPreferredBand(c)

ScenarioC ==
    /\ category_rule.min_track_number = 1
    /\ category_rule.max_track_number = 14
    /\ category_rule.preferred_min_track_number = 2
    /\ category_rule.preferred_max_track_number = 13
    /\ priority_config.criteria = DEFAULT_PRIORITY_CONFIGS["default"].criteria

\* C7 - Priority tier dominates proximity: with hard band 1-14, preferred
\* band 2-13 and the default criteria order, every candidate inside the
\* preferred band is ranked, and returned, before every candidate with an
\* ordinal outside it.
PriorityTierDominates ==
    (Ranked /\ ScenarioC) =>
        \A i, j \in 1..Len(candidates) :
            (InPreferredBand(candidates[i]) /\ OutsidePreferredBand(candidates[j]))
                => /\ i < j
                   /\ (j <= Len(result.suggestions) =>
                          /\ result.suggestions[i].track = candidates[i].name
                          /\ result.suggestions[j].track = candidates[j].name)

\* ordinal 1 is closer to the planned track and first in the inventory, and
\* still comes after a track of the preferred band
PriorityTierWitness ==
    /\ Ranked /\ ScenarioC
    /\ \E i, j \in 1..Len(candidates) :
           /\ InPreferredBand(candidates[i])
           /\ candidates[j].num = 1
           /\ candidates[j].proximity < candidates[i].proximity
           /\ MetaPos(candidates[j].name) < MetaPos(candidates[i].name)
           /\ i < j

PlatformLess(x) == x.len_compl = 0 /\ x.cap_fun = 0

\* C8 - Platform-less admissibility: under a rule with allow_no_platform a
\* track with platform length 0 and capacity 0 passes the length check at
\* every positive train length, is a candidate unless excluded, and the
\* reason of such a returned track begins with the no-platform clause.
PlatformLessAdmissible ==
    (Ranked /\ category_rule.allow_no_platform) =>
        /\ \A m \in Range(Metadata) :
               PlatformLess(m) =>
                   /\ \A l \in ProbeLengths :
                          meets_length_requirements(m.len_compl, m.cap_fun, l,
                                                    category_rule)
                   /\ (~is_track_excluded(m.name, m.num, m.suffix,
                                          category_rule, Planned.num,
                                          Planned.suffix)
                          => m.name \in {c.name : c \in Range(candidates)})
        /\ \A k \in 1..Len(result.suggestions) :
               PlatformLess(candidates[k]) =>
                   /\ result.suggestions[k].track = candidates[k].name
                   /\ result.suggestions[k].reason[1] = NoPlatformClause

\* a platform-less track is returned with the no-platform clause first
PlatformLessWitness ==
    /\ Ranked /\ category_rule.allow_no_platform
    /\ \E k \in 1..Len(result.suggestions) :
           /\ PlatformLess(candidates[k])
           /\ result.suggestions[k].reason[1] = NoPlatformClause

\* a metadata entry that is the feasible BIS twin of the planned track
FeasibleBisTwin(m) ==
    /\ m.suffix = "BIS"
    /\ IsTwin(m)
    /\ ~is_track_excluded(m.name, m.num, m.suffix, category_rule,
                          Planned.num, Planned.suffix)
    /\ meets_length_requirements(m.len_compl, m.cap_fun, train_length_m,
                                 category_rule)

TwinReturnedAt(name, k) ==
    /\ candidates[k].name = name
    /\ k <= MaxSuggestions =>
           /\ result.suggestions[k].track = name
           /\ BisClause \in Range(result.suggestions[k].reason)
           /\ VariantClause \in Range(result.suggestions[k].reason)

\* C9 - Twin allowed: when the rule allows BIS and the BIS twin of the
\* planned track is feasible and within the first seven, it is returned
\* with the BIS-admitted clause and the variant-of-planned-number clause.
TwinAllowed ==
    (Ranked /\ category_rule.allow_bis) =>
        \A m \in Range(Metadata) :
            FeasibleBisTwin(m) =>
                \E k \in 1..Len(candidates) : TwinReturnedAt(m.name, k)

\* Scenario B: the BIS twin of the planned track is in the returned list
TwinAllowedWitness ==
    /\ Ranked /\ category_rule.allow_bis
    /\ \E m \in Range(Metadata) :
           /\ FeasibleBisTwin(m)
           /\ m.name \in ReturnedNames

\* C10 - A non-positive train length is rejected before anything else: the
\* call raises the train-length error whatever the inventory, planned track
\* and configuration objects are, with no warning logged, no candidate
\* built and no suggestion produced.
NonPositiveLengthRejected ==
    (Done /\ train_length_m <= 0) =>
        /\ result.status = "raised"
        /\ result.exc = "ValueError"
        /\ result.msg = "Train length must be greater than zero."
        /\ result.suggestions = <<>>
        /\ candidates = <<>>
        /\ log = {}

\* rejected although the configuration is missing and no track is valid
NonPositiveLengthWitness ==
    /\ Done /\ train_length_m <= 0
    /\ ~category_rule.present
    /\ tracks # <<>> /\ Metadata = <<>>
    /\ result.status = "raised"

-----------------------------------------------------------------------------
(* Suggestions endpoint: how get_suggestions answers the outcome of the call *)

\* HTTP status of POST /tracks/suggestions for one train: a ValueError raised
\* by select_tracks is caught and re-raised as HTTPException(400); any other
\* exception is not caught and the framework answers 500; otherwise 200.
suggestions_status(outcome) ==
    IF outcome.status = "returned" THEN 200
    ELSE IF outcome.exc = "ValueError" THEN 400
    ELSE 500

\* the request passes the length check but has no usable inventory or lacks
\* a configuration object
ConfigurationFailure ==
    /\ train_length_m > 0
    /\ \/ ~category_rule.present
       \/ ~priority_config.present
       \/ Metadata = <<>>

\* C11 - Configuration errors are distinct and server-side: a request with a
\* positive train length whose inventory yields zero valid tracks, or whose
\* category rule / priority config is missing, fails with a configuration
\* error (not the exception class of the client-input validation error) and
\* the suggestions endpoint answers it with a server error (5xx), not a
\* client error (4xx).
ConfigurationErrorIsServerError ==
    (Done /\ ConfigurationFailure) =>
        /\ result.status = "raised"
        /\ result.exc = "ConfigurationError"
        /\ suggestions_status(result) >= 500

-----------------------------------------------------------------------------
(* Properties of the configuration service *)

\* keys of the lookup that produced the value held in call
ExactKey == upper_strip(call.category)
FamilyKey == normalize_category_key(call.category)

\* the configuration a stored row stands for
RowRule(row) == load_rule_from_row(row, NoRule)
RowPriority(row) == load_priority_from_row(row, NoPriority)

\* precedence of the lookup over a table and a table of built-in defaults
ChainHolds(rows, defaults, AsConfig(_)) ==
    /\ call.returned.present
    /\ ExactKey \in DOMAIN rows =>
           call.returned = AsConfig(rows[ExactKey])
    /\ (ExactKey \notin DOMAIN rows /\ FamilyKey \in DOMAIN rows) =>
           call.returned = AsConfig(rows[FamilyKey])
    /\ (ExactKey \notin DOMAIN rows /\ FamilyKey \notin DOMAIN rows) =>
           call.returned = IF FamilyKey \in DOMAIN defaults
                           THEN defaults[FamilyKey]
                           ELSE defaults["default"]

\* C12 - Fallback chain: for every category string and every state of the
\* stored rows, get_category_rule and get_priority_config return the row
\* stored under the exact (trimmed, upper-cased) key, else the row stored
\* under the category's family key, else the built-in default of that family
\* key, else the global default; a configuration is always returned.
FallbackChain ==
    /\ call.op = "get_category_rule" =>
           ChainHolds(rule_rows, DEFAULT_CATEGORY_RULES, RowRule)
    /\ call.op = "get_priority_config" =>
           ChainHolds(priority_rows, DEFAULT_PRIORITY_CONFIGS, RowPriority)

\* an IC lookup served by the row stored under LH while a REG row exists,
\* with no IC row
FallbackChainWitness ==
    /\ call.op = "get_category_rule"
    /\ call.category = " ic"
    /\ DOMAIN rule_rows = {"LH", "REG"}
    /\ call.returned = RowRule(rule_rows["LH"])
    /\ call.returned # DEFAULT_CATEGORY_RULES["LH"]

\* C13 - Long-haul families share one default: with no stored rows, every
\* category of the long-haul family set (LH, EC, EN, IC, ICN, EXP, NCL, ES*,
\* FR, FA, FB, NTV) resolves through get_category_rule to the same default
\* rule, the LH rule with hard band 1-14 and preferred band 2-13.
LongHaulShareDefault ==
    (/\ call.op = "get_category_rule"
     /\ upper_strip(call.category) \in LH_CATEGORIES
     /\ DOMAIN rule_rows = {}) =>
        /\ call.returned = DEFAULT_CATEGORY_RULES["LH"]
        /\ call.returned.min_track_number = 1
        /\ call.returned.max_track_number = 14
        /\ call.returned.preferred_min_track_number = 2
        /\ call.returned.preferred_max_track_number = 13

-----------------------------------------------------------------------------
(* Properties of the filter and the scorer *)

\* suffix token of a returned name
SuffixOf(norm_name) == IF Len(norm_name) > 1 THEN norm_name[2] ELSE ""

RuleForbidsTwins == category_rule.present /\ ~category_rule.allow_bis

\* C15 (as stated) - Suffix rule: under a category rule that does not allow
\* twin suffixes, no track whose name carries any suffix token (any
\* non-empty second token, not only BIS) is returned by select_tracks.
NoSuffixedTrackReturned ==
    (ReturnedList /\ RuleForbidsTwins) =>
        \A name \in ReturnedNames : SuffixOf(name) = ""

\* C15 (amended) - Suffix rule: under a category rule that does not allow
\* BIS, no track whose suffix token is BIS is returned by select_tracks;
\* tracks with another suffix token are not excluded by this rule.
NoBisTrackReturned ==
    (ReturnedList /\ RuleForbidsTwins) =>
        \A name \in ReturnedNames : SuffixOf(name) # "BIS"

\* a BIS track long enough for the train is left out while a track with the
\* suffix NORD is returned
NoBisTrackWitness ==
    /\ ReturnedList
    /\ RuleForbidsTwins
    /\ \E m \in Range(Metadata) :
           /\ m.suffix = "BIS"
           /\ m.len_compl >= train_length_m
           /\ (Planned.num = None \/ m.num # Planned.num)
           /\ m.name \notin ReturnedNames
    /\ \E name \in ReturnedNames : SuffixOf(name) = "NORD"

\* ordinal of a returned name
OrdinalOf(norm_name) == parse_track_name(Name(norm_name)).num

HasHardBand ==
    /\ category_rule.present
    /\ category_rule.min_track_number # None
    /\ category_rule.max_track_number # None

\* C16 - Hard band: under a rule with a hard band [min, max] (e.g. the
\* long-haul default 1-14) every returned track has a numeric ordinal inside
\* the band; tracks with any other ordinal, and tracks whose name yields no
\* ordinal, are excluded.
HardBandOrdinal ==
    (ReturnedList /\ HasHardBand) =>
        \A name \in ReturnedNames :
            /\ OrdinalOf(name) # None
            /\ OrdinalOf(name) >= category_rule.min_track_number
            /\ OrdinalOf(name) <= category_rule.max_track_number

\* platform length of the planned record, None read as 0
PlannedLength == OrZero(Planned.info.marciapiede_complessivo_m)

\* C17 - Length delta: for every feasible candidate, when a planned track
\* record is resolved the length_delta is the absolute difference between
\* the candidate's platform length and the planned track's platform length
\* (also when the planned platform length is 0); with no planned record it
\* is 0.
LengthDeltaIsDifference ==
    Ranked =>
        \A c \in Range(candidates) :
            c.len_delta = IF Planned.found
                          THEN Abs(c.len_compl - PlannedLength)
                          ELSE 0

\* the inventory record a candidate was built from: the last key that
\* normalises to the candidate's name
OwnInfo(norm_name) ==
    tracks[Max({i \in 1..Len(tracks) :
                    parse_track_name(tracks[i].name).norm = norm_name})].info

\* C18 - Similarity: for every feasible candidate and every inventory,
\* whatever the case and spacing of its keys, the similarity score is +2 if
\* the candidate's own platform length equals the planned track's and is
\* > 0, plus +1 if its (high-platform-present, low-platform-present) pair
\* equals the planned track's; it is 0 when no planned record is resolved
\* and always lies in 0..3.
SimilarityOfOwnRecord ==
    Ranked =>
        \A c \in Range(candidates) :
            /\ c.similarity_score \in 0..3
            /\ c.similarity_score =
                   IF ~Planned.found THEN 0
                   ELSE (IF c.len_compl > 0 /\ c.len_compl = PlannedLength
                         THEN 2 ELSE 0)
                        + (IF profile_tuple(OwnInfo(c.name))
                              = profile_tuple(Planned.info)
                           THEN 1 ELSE 0)

\* the rule configures a soft band: both preferred bounds are set
HasSoftBand ==
    /\ category_rule.preferred_min_track_number # None
    /\ category_rule.preferred_max_track_number # None

OutsideSoftBand(num) ==
    \/ num < category_rule.preferred_min_track_number
    \/ num > category_rule.preferred_max_track_number

\* C19 - Priority tier: a feasible candidate with a numeric ordinal has tier
\* 1 exactly when the rule configures a soft (preferred) band and the
\* ordinal lies outside it, and tier 0 otherwise (no soft band, only a hard
\* band, or ordinal inside the preferred band); a candidate without a
\* numeric ordinal has tier 0.
PriorityTier ==
    Ranked =>
        \A c \in Range(candidates) :
            /\ c.priority_class \in {0, 1}
            /\ c.num = None => c.priority_class = 0
            /\ c.num # None =>
                   (c.priority_class = 1
                        <=> (HasSoftBand /\ OutsideSoftBand(c.num)))

\* one request whose candidates cover the three cases
PriorityTierCases ==
    /\ Ranked
    /\ HasSoftBand
    /\ \E c \in Range(candidates) :
           c.num # None /\ OutsideSoftBand(c.num) /\ c.priority_class = 1
    /\ \E c \in Range(candidates) :
           c.num # None /\ ~OutsideSoftBand(c.num) /\ c.priority_class = 0
    /\ \E c \in Range(candidates) : c.num = None /\ c.priority_class = 0

\* the keys _criterion_value knows
KnownKeys ==
    {"priority_class", "proximity", "similarity", "same_number",
     "length_delta", "track_number", "suffix_flag", "no_platform_first",
     "bis_preference"}

\* C20 - Ranker: the returned order is the ascending lexicographic order of
\* the per-candidate tuples (criterion value * weight * direction) taken in
\* the declared order of the criteria: no candidate is followed by one with
\* a smaller tuple; a criterion whose key is not a known key contributes 0
\* for every candidate, and the criteria never make a request fail that
\* succeeds with the default criteria.
RankerAscending ==
    /\ Ranked =>
           /\ \A i, j \in 1..Len(candidates) :
                  i < j => ~key_less(candidates[j], candidates[i],
                                     priority_config)
           /\ \A k \in 1..Len(Criteria) :
                  Criteria[k].key \notin KnownKeys =>
                      \A c \in Range(candidates) :
                          sort_key(c, priority_config)[k] = 0
    /\ (Done /\ priority_config.present) =>
           result.status =
               select_tracks(train_length_m, tracks, planned_track,
                             category_rule,
                             DEFAULT_PRIORITY_CONFIGS["default"]).status

-----------------------------------------------------------------------------
(* Properties of the ranker and the justification *)

EmptyCriteria == priority_config.present /\ priority_config.criteria = <<>>

\* candidate i may stand before candidate j in an ordering by ordinal alone
OrdinalOrdered(a, b) ==
    \/ b.num = None
    \/ a.num # None /\ a.num <= b.num

\* C21 - Empty criteria: when the criteria list of the priority config is
\* empty, select_tracks orders the feasible candidates by ordinal alone,
\* ascending, and every track without a parseable ordinal comes after all
\* tracks that have one; the returned list keeps that order.
EmptyCriteriaOrderByOrdinal ==
    (Ranked /\ EmptyCriteria) =>
        /\ \A i, j \in 1..Len(candidates) :
               i < j => OrdinalOrdered(candidates[i], candidates[j])
        /\ \A i \in 1..Len(result.suggestions) :
               result.suggestions[i].track = candidates[i].name

\* the inventory lists an ordinal-less track and a higher ordinal before a
\* lower ordinal; the output has them in ordinal order
EmptyCriteriaWitness ==
    /\ Ranked
    /\ EmptyCriteria
    /\ \E i, j, k \in 1..Len(candidates) :
           /\ i < j /\ j < k
           /\ candidates[i].num # None /\ candidates[j].num # None
           /\ candidates[i].num < candidates[j].num
           /\ candidates[k].num = None
           /\ MetaPos(candidates[j].name) < MetaPos(candidates[i].name)
           /\ MetaPos(candidates[k].name) < MetaPos(candidates[i].name)

\* the sort tuples of two candidates are equal on every configured criterion
TupleEqual(a, b) ==
    \A k \in 1..Len(Criteria) :
        float_eq(sort_key(a, priority_config)[k],
                 sort_key(b, priority_config)[k])

LengthTable(len_compl, cap_fun, train_length, rule) ==
    IF ~rule.allow_no_platform
    THEN len_compl # 0 /\ len_compl >= train_length
    ELSE IF cap_fun > 0 THEN cap_fun >= train_length
         ELSE IF len_compl > 0 THEN len_compl >= train_length
         ELSE TRUE

CandidateNames == {candidates[i].name : i \in 1..Len(candidates)}

NotExcluded(m) ==
    ~is_track_excluded(m.name, m.num, m.suffix, category_rule,
                       Planned.num, Planned.suffix)

\* C23 - Length/capacity feasibility: a track that the exclusion filter lets
\* through becomes a candidate exactly when the table holds for its platform
\* length, its functional capacity, the train length and the rule: no
\* platform and a platform-required rule fail; a platform-less rule takes
\* capacity >= train length when the capacity is positive, else platform
\* length >= train length when that is positive, else accepts; otherwise
\* platform length >= train length. The functional capacity has no part in
\* a platform-required category.
LengthFeasibility ==
    ReturnedList =>
        \A m \in Range(Metadata) :
            NotExcluded(m) =>
                /\ (m.name \in CandidateNames)
                       <=> LengthTable(m.len_compl, m.cap_fun, train_length_m,
                                       category_rule)
                /\ ~category_rule.allow_no_platform =>
                       ((m.name \in CandidateNames)
                            <=> (m.len_compl > 0
                                 /\ m.len_compl >= train_length_m))

\* one request keeps a track whose capacity is too small for the train
\* (platform-required rule) while another drops a track whose platform is
\* long enough (platform-less rule, capacity too small); here the first: a
\* candidate with 0 < capacity < train length <= platform length, next to a
\* dropped track whose capacity would have been enough
LengthFeasibilityWitness ==
    /\ ReturnedList
    /\ ~category_rule.allow_no_platform
    /\ \E m \in Range(Metadata) :
           /\ m.name \in CandidateNames
           /\ m.cap_fun > 0 /\ m.cap_fun < train_length_m
    /\ \E m \in Range(Metadata) :
           /\ m.name \notin CandidateNames
           /\ m.cap_fun >= train_length_m

\* the notes a justification can make about a candidate, from the inputs of
\* the request: sufficiency of the platform or of the capacity or the
\* platform-less admission, the twin admission, the soft band, the relation
\* to the planned ordinal, the similarity, the platform profile
SpecificApplies(c) ==
    \/ category_rule.allow_no_platform /\ c.len_compl = 0
    \/ c.len_compl >= train_length_m
    \/ c.cap_fun > 0
    \/ category_rule.allow_bis /\ c.suffix = "BIS"
    \/ HasSoftBand
    \/ Planned.num # None
    \/ c.similarity_score >= 1
    \/ profile_tuple(tracks_get(tracks, c.name)) # <<0, 0>>

\* C24 - Justification fallback: the justification of every returned track
\* has at least one clause, and it contains the generic clause "meets all
\* configured constraints" exactly when none of the specific notes applies
\* to the candidate.
JustificationFallback ==
    ReturnedList =>
        \A i \in 1..Len(result.suggestions) :
            /\ result.suggestions[i].reason # <<>>
            /\ (GenericClause \in Range(result.suggestions[i].reason))
                   <=> ~SpecificApplies(candidates[i])

\* a returned track about which only the length note can be made: no
\* capacity, no soft band, no planned ordinal, no platform profile
JustificationFallbackWitness ==
    /\ ReturnedList
    /\ \E i \in 1..Len(result.suggestions) :
           /\ Len(result.suggestions[i].reason) = 1
           /\ candidates[i].cap_fun = 0
           /\ Planned.num = None
           /\ ~HasSoftBand
           /\ profile_tuple(tracks_get(tracks, candidates[i].name)) = <<0, 0>>

ClauseTexts(text) ==
    {cl \in UNION {Range(result.suggestions[i].reason) :
                       i \in 1..Len(result.suggestions)} : cl.text = text}

\* C26 - Justification truthfulness: a clause "platform of X m >= train
\* length Y m" in the justification of a returned track has X >= Y, and a
\* clause "functional capacity C m sufficient for the train of Y m" has
\* C >= Y, under platform-required and platform-less rules alike.
JustificationTruthful ==
    ReturnedList =>
        /\ \A cl \in ClauseTexts(PlatformClause(0, 0).text) : cl.a >= cl.b
        /\ \A cl \in ClauseTexts(CapacityClause(0, 0).text) : cl.a >= cl.b

AllClauses ==
    UNION {Range(result.suggestions[i].reason) :
               i \in 1..Len(result.suggestions)}

\* C28 - No candidate at distance 0: when the ordinal of the planned track
\* is resolved, every candidate of select_tracks has proximity >= 1 (a
\* twin and an adjacent track both have 1; a track without ordinal is
\* incomparable), and no justification says "same number as the planned
\* track".
NoCandidateAtDistanceZero ==
    (ReturnedList /\ Planned.num # None) =>
        /\ \A i \in 1..Len(candidates) : candidates[i].proximity >= 1
        /\ SameNumberClause \notin AllClauses

\* the planned ordinal is resolved and the list holds a twin of the
\* planned track, at distance 1, and a track two numbers away
NoCandidateAtDistanceZeroWitness ==
    /\ ReturnedList
    /\ Planned.num # None
    /\ \E i, j \in 1..Len(result.suggestions) :
           /\ IsTwin(candidates[i]) /\ candidates[i].proximity = 1
           /\ VariantClause \in Range(result.suggestions[i].reason)
           /\ candidates[j].num # None
           /\ Abs(candidates[j].num - Planned.num) = 2
           /\ DistanceClause(2) \in Range(result.suggestions[j].reason)

-----------------------------------------------------------------------------
(* Properties of the configuration store *)

\* the key upsert_category_rule and upsert_priority_config store the global
\* default under
GlobalDefaultKey == upper_strip("default")

\* the lookup held in call was for a category without a row of its own and
\* without a family, served from table rows
PlainLookup(op, rows) ==
    /\ call.op = op
    /\ ExactKey \notin DOMAIN rows
    /\ FamilyKey = "default"
    /\ GlobalDefaultKey \in DOMAIN rows

\* C27 - Customising the global default takes effect: once a rule has been
\* upserted for the category 'default', get_category_rule for a category
\* with no exact row and no family row returns the upserted rule, not the
\* built-in default; likewise get_priority_config after
\* upsert_priority_config.
GlobalDefaultTakesEffect ==
    /\ PlainLookup("get_category_rule", rule_rows)
           => call.returned = RowRule(rule_rows[GlobalDefaultKey])
    /\ PlainLookup("get_priority_config", priority_rows)
           => call.returned = RowPriority(priority_rows[GlobalDefaultKey])

\* the rule carries the values the payload gives: each flag the payload
\* has, the four band bounds, and the deny lists without their duplicates
CarriesPayload(rule, payload) ==
    /\ rule.present
    /\ "allow_bis" \in payload.keys => rule.allow_bis = payload.allow_bis
    /\ "allow_no_platform" \in payload.keys
           => rule.allow_no_platform = payload.allow_no_platform
    /\ rule.min_track_number = payload.min_track_number
    /\ rule.max_track_number = payload.max_track_number
    /\ rule.preferred_min_track_number = payload.preferred_min_track_number
    /\ rule.preferred_max_track_number = payload.preferred_max_track_number
    /\ rule.deny_track_names = SetOf(payload.deny_track_names)
    /\ SetOf(rule.deny_track_patterns) = SetOf(payload.deny_track_patterns)
    /\ rule.deny_track_numbers = SetOf(payload.deny_track_numbers)

StoreKeys == {upper_strip(c) : c \in StoreCategories}

\* C29 - Configuration store: after any sequence of upsert_category_rule
\* and delete_category_rule calls, get_category_rule for an exact key
\* returns the values of the last upsert of that key when no delete of the
\* key followed it; a key never upserted, or deleted since, has no row, so
\* its lookup is that of a table the key was never written to; and a
\* delete of a key without a row leaves every other key's row as it was
\* (last_upsert records, per key, what the calls so far should have left).
LastUpsertWins ==
    /\ DOMAIN rule_rows = DOMAIN last_upsert
    /\ \A k \in DOMAIN last_upsert :
           CarriesPayload(get_category_rule(rule_rows, k), last_upsert[k])
    /\ \A k \in StoreKeys \ DOMAIN last_upsert :
           session_get(rule_rows, k) = NoRow
    /\ (call.op = "get_category_rule" /\ ExactKey \in DOMAIN last_upsert)
           => CarriesPayload(call.returned, last_upsert[ExactKey])

\* a lookup of a key upserted twice, the second time with a payload that
\* has no flags over a row whose twin flag was set; no other key has a row
LastUpsertWinsWitness ==
    /\ call.op = "get_category_rule"
    /\ ExactKey \in DOMAIN last_upsert
    /\ last_upsert[ExactKey] = BandPayload
    /\ call.returned.allow_bis
    /\ DOMAIN rule_rows = {ExactKey}

-----------------------------------------------------------------------------
(* Properties of the suggestions endpoint *)

\* the answer to train i of the request submitted alone
Alone(i) == get_suggestions(<<trains[i]>>, tracks, rule_rows, priority_rows)

-----------------------------------------------------------------------------
(* Properties of the admin session tokens *)

\* the last token check, and the token it was about
Checked == auth.outcome.op = "verify"

\* the token is, field for field and character for character, one that
\* create_admin_token issued under the secret in force at the verification
Genuine(token, secret) ==
    \E r \in auth.issued : r.token = token /\ r.secret = secret

\* C30 - Admin token lifecycle: verify_admin_token accepts a token exactly
\* when create_admin_token issued it under the current secret, nobody
\* modified it and the current time has not passed its expiry; every other
\* token (expired, tampered, malformed) is answered with 401 Unauthorized;
\* and a token is accepted for at least 60 seconds after it was issued,
\* whatever ADMIN_TOKEN_TTL says.
TokenLifecycle ==
    /\ Checked =>
           /\ (auth.outcome.status = 200)
                  <=> /\ Genuine(auth.outcome.token, auth.outcome.secret)
                      /\ auth.outcome.now <= auth.outcome.token.expires.value
           /\ auth.outcome.status # 200 => auth.outcome.status = 401
    /\ \A r \in auth.issued :
           (r.secret = auth.secret /\ auth.now <= r.at + 60)
               => require_admin_token(r.token, auth.secret, auth.now).status
                      = 200

====
